---------------------------- MODULE Spec2Model ----------------------------
(***************************************************************************)
(* axai-pg: the collection graph tables (data/models/collection.py,        *)
(* data/models/graph.py) and the operations that act on them.              *)
(*                                                                         *)
(* The tables, their column defaults, their ON DELETE rules and the        *)
(* EntityOperation methods are translated from the source.  The merge      *)
(* engine, the link resolver and the graph state machine have no code in   *)
(* the source files; their actions are written from the specification      *)
(* (sections 4, 5 and 7) and act on the tables of the source.              *)
(***************************************************************************)
EXTENDS Integers, FiniteSets, Sequences, TLC

(***************************************************************************)
(* Bounds of the model.                                                    *)
(***************************************************************************)
\* The ledger takes at most MaxOps EntityOperation rows.
MaxOps == 3
\* At most MaxLinks EntityLink rows are proposed.
MaxLinks == 1
\* The most rows llm_usage holds.
MaxUsage == 2
\* The most rows document_versions holds.
MaxVersions == 2
\* The clock runs from 0 to MaxTime minutes, Step minutes at a time.
MaxTime == 16
Step == 8

(***************************************************************************)
(* The fixed universe: one collection, three documents (X is not in the    *)
(* collection), one GraphEntity per document and two for document B.       *)
(***************************************************************************)
Callers == {"a", "b"}
Threads == {"t1", "t2"}
UserIds == {"u1", "u2"}
DocumentIds == {"A", "B", "X"}
GraphEntityIds == {1, 2, 3, 4}
CollectionEntityIds == {1, 2, 3}

\* GraphEntity.source_file_uuid: the document a graph entity was extracted from.
source_file_uuid(e) ==
    CASE e = 1 -> "A"
      [] e = 4 -> "X"
      [] OTHER -> "B"

\* Variant of the graph_state default: a new collection counts as synchronized.
DefaultGraphStateSynchronized == "synchronized"

\* The graph relationships extracted from the documents: <<source, target>>.
GraphRelationshipIds == {<<1, 3>>}

\* Column defaults of the tables.
DefaultGraphState == "uninitialized"
DefaultLifecycleState == "individual"
DefaultIsMerged == FALSE
\* Variant of the status default: a new operation counts as queued.
DefaultStatusQueued == "queued"

\* Column defaults of the tables (continued).
DefaultStatus == "pending"
DefaultIsActive == TRUE
\* entity_count, relationship_count and document_count of a new collection.
DefaultCount == 0

GraphStates ==
    {"uninitialized", "initializing", "synchronized", "out_of_sync", "updating", "error"}
LifecycleStates ==
    {"individual", "linked", "merging", "merged", "unmerging", "error"}
Statuses == {"pending", "in_progress", "completed", "failed"}

\* operation_lock is NULL.
NoLock == 0

VARIABLES
    documents,                   \* rows of documents (their uuids)
    file_collection_association, \* documents associated with the collection
    graph_entities,              \* rows of graph_entities (their uuids)
    collection,                  \* the collections row
    collection_entities,         \* rows of collection_entities, by uuid
    collection_entity_sources,   \* rows <<collection_entity_uuid, source_graph_entity_uuid>>
    collection_relationships,    \* rows of collection_relationships
    entity_links,                \* rows of entity_links, by uuid
    entity_operations,           \* rows of entity_operations, by uuid (the ledger)
    pc,                          \* where each caller's request stands
    req,                         \* each caller's request in flight
    response,                    \* what the last step returned to its caller
    call,                        \* the last method called on op, with its argument
    op,                          \* one EntityOperation object held in memory
    document_table,              \* rows of documents as the repository stores them, by uuid
    summaries,                   \* rows of summaries
    document_versions,           \* rows of document_versions
    returned,                    \* the last repository call: its argument and what it returned
    users_table,                       \* rows of users_table (their uuids)
    llm_usage,                   \* rows of llm_usage
    collection_relationship_sources, \* rows <<collection relationship, graph relationship>>
    persisted,                   \* the entity_operations row of op as the store holds it
    dirty,                       \* the attributes of op the session saw assigned
    cache,                       \* the entries of the query cache, by key
    now,                         \* the clock, in minutes
    threads                      \* the repository call each thread is in

dbvars == <<documents, file_collection_association, graph_entities, collection,
            collection_entities, collection_entity_sources, collection_relationships,
            entity_links, entity_operations>>
repovars == <<document_table, summaries, document_versions, returned>>
schemavars == <<users_table, llm_usage, collection_relationship_sources>>
storevars == <<persisted, dirty>>
cachevars == <<cache, now, threads>>
vars == <<documents, file_collection_association, graph_entities, collection,
          collection_entities, collection_entity_sources, collection_relationships,
          entity_links, entity_operations, pc, req, response, call, op,
          document_table, summaries, document_versions, returned,
          users_table, llm_usage, collection_relationship_sources, persisted, dirty,
          cache, now, threads>>

(***************************************************************************)
(* JSON dictionaries: functions from keys to values.                       *)
(***************************************************************************)
EmptyDict == <<>>
DictPut(d, k, v) == [kk \in (DOMAIN d) \cup {k} |-> IF kk = k THEN v ELSE d[kk]]

\* A JSON column is NULL (null = TRUE) or holds a dictionary.
Null == [null |-> TRUE, dict |-> EmptyDict]
Json(d) == [null |-> FALSE, dict |-> d]
\* Python's truth value of a JSON column: None and {} are both falsy.
Falsy(j) == j.null \/ DOMAIN j.dict = {}

(***************************************************************************)
(* EntityOperation's methods.                                              *)
(***************************************************************************)
\* Variant of mark_completed that writes the status in_progress.
mark_in_progress(o) == [o EXCEPT !.status = "in_progress"]

mark_completed(o) == [o EXCEPT !.status = "completed"]

\* Variant of mark_failed that stores the error and leaves the status.
mark_failed_error_only(o, error_message) ==
    LET data == IF Falsy(o.operation_data) THEN EmptyDict ELSE o.operation_data.dict
    IN  [o EXCEPT !.operation_data = Json(DictPut(data, "error", error_message))]

\* Variant of mark_failed that replaces operation_data by the error alone.
mark_failed_replacing(o, error_message) ==
    [o EXCEPT !.status = "failed",
              !.operation_data = Json(DictPut(EmptyDict, "error", error_message))]

mark_failed(o, error_message) ==
    LET data == IF Falsy(o.operation_data) THEN EmptyDict ELSE o.operation_data.dict
    IN  [o EXCEPT !.status = "failed",
                  !.operation_data = Json(DictPut(data, "error", error_message))]

\* Variant of set_rollback_data that replaces operation_data by the rollback data alone.
set_rollback_data_replacing(o, data) ==
    [o EXCEPT !.operation_data = Json(DictPut(EmptyDict, "rollback", data))]

set_rollback_data(o, data) ==
    LET old == IF Falsy(o.operation_data) THEN EmptyDict ELSE o.operation_data.dict
    IN  [o EXCEPT !.operation_data = Json(DictPut(old, "rollback", data))]


NoCall == [method |-> "none", arg |-> "none"]
\* No repository call was made yet.
NoResult == [method |-> "none"]
\* A thread that is in no call.
IdleThread ==
    [pc |-> "idle", title |-> "none", read |-> "none", wrote |-> {},
     raised |-> "none"]

(***************************************************************************)
(* Reading the tables.                                                     *)
(***************************************************************************)
\* CollectionEntity.source_entities: the graph entities joined to ce.
SourcesOf(ce) == {s \in GraphEntityIds : <<ce, s>> \in collection_entity_sources}
\* GraphEntity.collection_entities_using: the collection entities joined to s.
EntitiesUsing(s) ==
    {ce \in DOMAIN collection_entities : <<ce, s>> \in collection_entity_sources}
\* The graph entity exists and its document is associated with the collection.
InCollection(s) ==
    s \in graph_entities /\ source_file_uuid(s) \in file_collection_association
CollectionSources == {s \in GraphEntityIds : InCollection(s)}

\* The same two readings over given junction rows.
SourcesIn(rows, ce) == {s \in GraphEntityIds : <<ce, s>> \in rows}
UsingIn(rows, s) == {ce \in CollectionEntityIds : <<ce, s>> \in rows}

\* graph_relationships: both ends are ON DELETE CASCADE on graph_entities.
GraphRelationships ==
    {r \in GraphRelationshipIds : r[1] \in graph_entities /\ r[2] \in graph_entities}

\* A new collections row with the column defaults.
NewCollection ==
    [exists |-> TRUE, graph_state |-> DefaultGraphState, entities_hash |-> {},
     entity_count |-> DefaultCount, relationship_count |-> DefaultCount,
     document_count |-> DefaultCount]

\* Variant of Recounted that leaves document_count as it was.
RecountedEntities(c, ces, rels, docs) ==
    [c EXCEPT !.entity_count = Cardinality(DOMAIN ces),
              !.relationship_count = Cardinality(rels)]

\* The cached counts recomputed from the rows given.
Recounted(c, ces, rels, docs) ==
    [c EXCEPT !.entity_count = Cardinality(DOMAIN ces),
              !.relationship_count = Cardinality(rels),
              !.document_count = Cardinality(docs)]

\* A collection relationship for each graph relationship whose two ends are
\* joined to a collection entity of the collection.
RelationshipsOver(rows) ==
    {x \in [source_entity_id : CollectionEntityIds,
            target_entity_id : CollectionEntityIds,
            source : GraphRelationships] :
        /\ x.source_entity_id \in UsingIn(rows, x.source[1])
        /\ x.target_entity_id \in UsingIn(rows, x.source[2])}

\* The relationships repointed after a merge or a split: each end follows
\* the source entity it came from to the collection entity now joined to it.
Repointed(rels, rows) ==
    LET follow(old, s) == IF UsingIn(rows, s) = {} THEN old
                          ELSE CHOOSE ce \in UsingIn(rows, s) : TRUE
    IN  {[source_entity_id |-> follow(x.source_entity_id, x.source[1]),
          target_entity_id |-> follow(x.target_entity_id, x.source[2]),
          source |-> x.source] : x \in rels}

Min(S) == CHOOSE x \in S : \A y \in S : x <= y

\* One new uuid per element of need, none of them in use.
NewUuids(need, used) ==
    LET free == CollectionEntityIds \ used
        rank(S, x) == Cardinality({y \in S : y < x})
    IN  [s \in need |-> CHOOSE i \in free : rank(free, i) = rank(need, s)]

\* A new collection_entities row with the column defaults.
NewCollectionEntity ==
    [is_merged |-> DefaultIsMerged,
     lifecycle_state |-> DefaultLifecycleState,
     operation_lock |-> NoLock]

\* A new entity_operations row: status takes the column default and
\* performed_at the server's clock at the insert, which follows the order
\* of the inserts.
NewEntityOperation(operation_type, entity_ids) ==
    [operation_type |-> operation_type,
     status |-> DefaultStatus,
     entity_ids |-> entity_ids,
     details |-> Null,
     operation_data |-> Null,
     performed_at |-> Len(entity_operations) + 1]

\* The caller's request record.
Request(o, sources, parts, target, link) ==
    [op |-> o, sources |-> sources, parts |-> parts, target |-> target,
     link |-> link, locked |-> {}, written |-> {}, opid |-> 0]
NoRequest == Request("none", {}, {}, 0, 0)

\* A step that returns nothing to a caller.
Silent == response' = "none"

\* The request is refused: the caller is told why and nothing is written.
Rejected(p, result) ==
    /\ req' = [req EXCEPT ![p] = NoRequest]
    /\ pc' = [pc EXCEPT ![p] = "idle"]
    /\ response' = result
    /\ UNCHANGED <<dbvars, op, call, repovars, schemavars, storevars, cachevars>>

\* The request has run to its end: the caller is told the result.
Finished(p, result) ==
    /\ req' = [req EXCEPT ![p] = NoRequest]
    /\ pc' = [pc EXCEPT ![p] = "idle"]
    /\ response' = result

\* Callers that passed the first look and have not yet recorded their operation.
Unrecorded == {q \in Callers : pc[q] = "claim"}
LedgerHasRoom == Len(entity_operations) + Cardinality(Unrecorded) < MaxOps

\* The sources an operation in flight holds locked.
LockedSources == UNION {req[q].sources : q \in {c \in Callers : pc[c] = "write"}}
\* The callers inside a multi-row write or a graph state transition.
InTransaction == {q \in Callers : pc[q] \in {"write", "init", "sync"}}

(***************************************************************************)
(* The initial state: the three documents and their graph entities are     *)
(* stored, documents A and B are in the collection, and the collection     *)
(* row has its column defaults.                                            *)
(***************************************************************************)
Init ==
    /\ documents = DocumentIds
    /\ file_collection_association = {"A", "B"}
    /\ graph_entities = GraphEntityIds
    /\ collection = NewCollection
    /\ collection_entities = <<>>
    /\ collection_entity_sources = {}
    /\ collection_relationships = {}
    /\ entity_links = <<>>
    /\ entity_operations = <<>>
    /\ pc = [p \in Callers |-> "idle"]
    /\ req = [p \in Callers |-> NoRequest]
    /\ response = "none"
    /\ call = NoCall
    /\ op = NewEntityOperation("merged", {})
    /\ document_table = <<>>
    /\ summaries = {}
    /\ document_versions = {}
    /\ returned = NoResult
    /\ users_table = UserIds
    /\ llm_usage = {}
    /\ collection_relationship_sources = {}
    /\ persisted = NewEntityOperation("merged", {})
    /\ dirty = {}
    /\ cache = <<>>
    /\ now = 0
    /\ threads = [t \in Threads |-> IdleThread]

(***************************************************************************)
(* Graph state machine (specification 4.4).                                *)
(***************************************************************************)
\* One individual collection entity per graph entity of need.
Materialized(ces, need) ==
    LET ids == NewUuids(need, DOMAIN ces)
        new == {ids[s] : s \in need}
    IN  [ce \in (DOMAIN ces) \cup new |->
            IF ce \in DOMAIN ces THEN ces[ce] ELSE NewCollectionEntity]
MaterializedRows(ces, need) ==
    LET ids == NewUuids(need, DOMAIN ces)
    IN  {<<ids[s], s>> : s \in need}

InitializeBegin(p) ==
    /\ pc[p] = "idle"
    /\ collection.exists
    /\ LET r == Request("initialize", {}, {}, 0, 0)
       IN  IF collection.graph_state = "uninitialized"
           THEN /\ LedgerHasRoom
                /\ collection' = [collection EXCEPT !.graph_state = "initializing"]
                /\ entity_operations' =
                       Append(entity_operations, NewEntityOperation("initialize_graph", {}))
                /\ Silent
                /\ req' = [req EXCEPT ![p] =
                               [r EXCEPT !.opid = Len(entity_operations) + 1]]
                /\ pc' = [pc EXCEPT ![p] = "init"]
                /\ UNCHANGED <<documents, file_collection_association, graph_entities,
                               collection_entities, collection_entity_sources,
                               entity_links, collection_relationships, op, call, repovars, schemavars, storevars, cachevars>>
           ELSE Rejected(p, "conflict")

InitializeFinish(p) ==
    /\ Finished(p, "success")
    /\ pc[p] = "init"
    /\ LET need == CollectionSources
           ces == Materialized(collection_entities, need)
           rows == collection_entity_sources \cup MaterializedRows(collection_entities, need)
       IN  /\ collection_entities' = ces
           /\ collection_entity_sources' = rows
           /\ collection_relationships' = RelationshipsOver(rows)
           /\ collection' =
                  Recounted([collection EXCEPT !.graph_state = "synchronized",
                                               !.entities_hash = need],
                            ces, RelationshipsOver(rows), file_collection_association)
    /\ entity_operations' = [entity_operations EXCEPT
                                ![req[p].opid] = mark_completed(@)]
    /\ UNCHANGED <<documents, file_collection_association, graph_entities,
                   entity_links, op, call, repovars, schemavars, storevars, cachevars>>

InitializeFail(p) ==
    /\ Finished(p, "failed")
    /\ pc[p] = "init"
    /\ collection' = [collection EXCEPT !.graph_state = "error"]
    /\ entity_operations' = [entity_operations EXCEPT
                                ![req[p].opid] = mark_failed(@, "PersistenceFailure")]
    /\ UNCHANGED <<documents, file_collection_association, graph_entities,
                   collection_entities, collection_entity_sources, entity_links, collection_relationships, op, call, repovars, schemavars, storevars, cachevars>>

\* detect_drift: entities_hash is a fingerprint of the current source entities.
DetectDrift ==
    /\ Silent
    /\ collection.exists
    /\ collection.graph_state = "synchronized"
    /\ collection.entities_hash # CollectionSources
    /\ collection' = [collection EXCEPT !.graph_state = "out_of_sync"]
    /\ UNCHANGED <<documents, file_collection_association, graph_entities,
                   collection_entities, collection_entity_sources, entity_links,
                   entity_operations, pc, req, collection_relationships, op, call, repovars, schemavars, storevars, cachevars>>

\* Rows of entity_links that survive the deletion of graph entities ges and
\* collection entities ces: graph_entity_uuid and collection_entity_uuid are
\* ON DELETE CASCADE, merged_entity_uuid is ON DELETE SET NULL.
LinksAfterDelete(links, ges, ces) ==
    LET kept == {l \in DOMAIN links :
                    /\ links[l].graph_entity_uuid \notin ges
                    /\ links[l].collection_entity_uuid \notin ces}
    IN  [l \in kept |->
            IF links[l].merged_entity_uuid \in ces
            THEN [links[l] EXCEPT !.merged_entity_uuid = 0]
            ELSE links[l]]

\* collection_entity_sources without its ON DELETE rules: the rows stay.
SourcesKept(rows, ges, ces) == rows
\* Rows of collection_entity_sources that survive: both columns are
\* ON DELETE CASCADE.
SourcesAfterDelete(rows, ges, ces) ==
    {r \in rows : r[1] \notin ces /\ r[2] \notin ges}

\* Merge reconciliation over the entities no operation holds: an entity left
\* without sources is dropped, a merged entity left with one source becomes
\* individual, and a source entity without a collection entity gets one.
Reconciled(ces) ==
    LET free(ce) == ces[ce].operation_lock = NoLock
        keep == {ce \in DOMAIN ces : ~free(ce) \/ SourcesOf(ce) # {}}
        kept == [ce \in keep |->
                    IF free(ce) /\ ces[ce].is_merged /\ Cardinality(SourcesOf(ce)) = 1
                    THEN NewCollectionEntity
                    ELSE ces[ce]]
        need == {s \in CollectionSources : EntitiesUsing(s) = {}}
    IN  Materialized(kept, need)
ReconciledRows(ces) ==
    LET keep == {ce \in DOMAIN ces :
                    ces[ce].operation_lock # NoLock \/ SourcesOf(ce) # {}}
        kept == [ce \in keep |-> ces[ce]]
        need == {s \in CollectionSources : EntitiesUsing(s) = {}}
    IN  SourcesAfterDelete(collection_entity_sources, {}, (DOMAIN ces) \ keep)
            \cup MaterializedRows(kept, need)

SyncBegin(p) ==
    /\ pc[p] = "idle"
    /\ collection.exists
    /\ LET r == Request("sync", {}, {}, 0, 0)
       IN  IF collection.graph_state \in {"out_of_sync", "error"}
           THEN /\ LedgerHasRoom
                /\ collection' = [collection EXCEPT !.graph_state = "updating"]
                /\ entity_operations' =
                       Append(entity_operations, NewEntityOperation("sync_graph", {}))
                /\ Silent
                /\ req' = [req EXCEPT ![p] =
                               [r EXCEPT !.opid = Len(entity_operations) + 1]]
                /\ pc' = [pc EXCEPT ![p] = "sync"]
                /\ UNCHANGED <<documents, file_collection_association, graph_entities,
                               collection_entities, collection_entity_sources,
                               entity_links, collection_relationships, op, call, repovars, schemavars, storevars, cachevars>>
           ELSE Rejected(p, "conflict")

SyncFinish(p) ==
    /\ Finished(p, "success")
    /\ pc[p] = "sync"
    /\ collection_entities' = Reconciled(collection_entities)
    /\ collection_entity_sources' = ReconciledRows(collection_entities)
    /\ collection_relationships' = RelationshipsOver(ReconciledRows(collection_entities))
    /\ entity_links' = LinksAfterDelete(entity_links, {},
                           (DOMAIN collection_entities) \ DOMAIN Reconciled(collection_entities))
    /\ collection' =
           Recounted([collection EXCEPT !.graph_state = "synchronized",
                                        !.entities_hash = CollectionSources],
                     Reconciled(collection_entities),
                     RelationshipsOver(ReconciledRows(collection_entities)),
                     file_collection_association)
    /\ entity_operations' = [entity_operations EXCEPT
                                ![req[p].opid] = mark_completed(@)]
    /\ UNCHANGED <<documents, file_collection_association, graph_entities, op, call, repovars, schemavars, storevars, cachevars>>

SyncFail(p) ==
    /\ Finished(p, "failed")
    /\ pc[p] = "sync"
    /\ collection' = [collection EXCEPT !.graph_state = "error"]
    /\ entity_operations' = [entity_operations EXCEPT
                                ![req[p].opid] = mark_failed(@, "PersistenceFailure")]
    /\ UNCHANGED <<documents, file_collection_association, graph_entities,
                   collection_entities, collection_entity_sources, entity_links, collection_relationships, op, call, repovars, schemavars, storevars, cachevars>>

(***************************************************************************)
(* Deletions: what the ON DELETE rules of the tables remove.               *)
(***************************************************************************)
\* graph_entities.source_file_uuid is ON DELETE CASCADE.
GraphEntitiesOf(d) == {e \in graph_entities : source_file_uuid(e) = d}

\* llm_usage.document_uuid without its ON DELETE rule: the rows stay.
UsageKept(rows, docs) == rows
\* llm_usage.document_uuid is ON DELETE CASCADE.
UsageAfterDelete(rows, docs) == {r \in rows : r.document_uuid \notin docs}

DeleteGraphEntities(ges) ==
    /\ graph_entities' = graph_entities \ ges
    /\ collection_relationship_sources' =
           {r \in collection_relationship_sources :
               r[2][1] \notin ges /\ r[2][2] \notin ges}
    /\ collection_entity_sources' = SourcesAfterDelete(collection_entity_sources, ges, {})
    /\ entity_links' = LinksAfterDelete(entity_links, ges, {})

DeleteDocument(d) ==
    /\ Silent
    /\ d \in documents
    /\ GraphEntitiesOf(d) \cap LockedSources = {}
    /\ documents' = documents \ {d}
    /\ file_collection_association' = file_collection_association \ {d}
    /\ DeleteGraphEntities(GraphEntitiesOf(d))
    /\ llm_usage' = UsageAfterDelete(llm_usage, {d})
    /\ UNCHANGED <<collection, collection_entities, entity_operations, pc, req,
                   collection_relationships, op, call, repovars, users_table,
                   storevars, cachevars>>

DeleteGraphEntity(e) ==
    /\ Silent
    /\ e \in graph_entities
    /\ e \notin LockedSources
    /\ DeleteGraphEntities({e})
    /\ UNCHANGED <<documents, file_collection_association, collection,
                   collection_entities, entity_operations, pc, req,
                   collection_relationships, op, call, repovars, users_table, llm_usage,
                   storevars, cachevars>>

\* collection_entities, entity_links, entity_operations and the association
\* rows reference collections.uuid ON DELETE CASCADE (and the relationships of
\* Collection cascade "all, delete-orphan").
DeleteCollection ==
    /\ Silent
    /\ collection.exists
    /\ InTransaction = {}
    /\ collection' = [collection EXCEPT !.exists = FALSE]
    /\ file_collection_association' = {}
    /\ collection_entities' = <<>>
    /\ collection_entity_sources' = {}
    /\ collection_relationships' = {}
    /\ entity_links' = <<>>
    /\ entity_operations' = <<>>
    /\ collection_relationship_sources' = {}
    /\ UNCHANGED <<documents, graph_entities, pc, req, op, call, repovars, users_table,
                   llm_usage, storevars, cachevars>>

(***************************************************************************)
(* Collection merge engine (specification 4.1, 5 and 7).  A request is     *)
(* looked at (Begin), claims its locks by one conditional update (Claim),  *)
(* writes its rows, and commits or fails (PersistenceFailure).             *)
(***************************************************************************)
MergeRequests == {{1, 2}, {2, 3}, {1, 2, 3}, {3, 4}, {2}}
LinkRequests == {<<1, 2>>, <<4, 2>>}
DeletableDocuments == {"A", "B"}
DeletableEntities == {2}

\* Variant of ValidMerge that does not look at the documents of the sources.
ValidMergeAnySource(S) == Cardinality(S) >= 2

\* ValidationFailure: an empty or self-referential merge, or a source entity
\* that is not of a document of the collection.
ValidMerge(S) == Cardinality(S) >= 2 /\ \A s \in S : InCollection(s)

\* Variant of Mergeable that does not look at operation_lock or lifecycle_state.
MergeableUnlocked(S) ==
    \A s \in S :
        /\ Cardinality(EntitiesUsing(s)) = 1
        /\ \A ce \in EntitiesUsing(s) : ce \in DOMAIN collection_entities

\* Every source has its own individual collection entity and none is locked.
Mergeable(S) ==
    \A s \in S :
        /\ Cardinality(EntitiesUsing(s)) = 1
        /\ \A ce \in EntitiesUsing(s) :
              /\ collection_entities[ce].operation_lock = NoLock
              /\ collection_entities[ce].lifecycle_state = "individual"
              /\ SourcesOf(ce) = {s}

Accepted(p, r) ==
    /\ LedgerHasRoom
    /\ Silent
    /\ req' = [req EXCEPT ![p] = r]
    /\ pc' = [pc EXCEPT ![p] = "claim"]
    /\ UNCHANGED <<dbvars, op, call, repovars, schemavars, storevars, cachevars>>

\* Variant of BeginMerge that does not look at graph_state.
BeginMergeAnyState(p, r) ==
    IF ~ValidMerge(r.sources) THEN Rejected(p, "validation")
    ELSE IF ~Mergeable(r.sources) THEN Rejected(p, "conflict")
    ELSE Accepted(p, r)

BeginMerge(p, r) ==
    IF collection.graph_state = "updating" THEN Rejected(p, "conflict")
    ELSE IF ~ValidMerge(r.sources) THEN Rejected(p, "validation")
    ELSE IF ~Mergeable(r.sources) THEN Rejected(p, "conflict")
    ELSE Accepted(p, r)

MergeBegin(p, S) ==
    /\ pc[p] = "idle"
    /\ collection.exists
    /\ BeginMerge(p, Request("merge", S, {}, 0, 0))

\* The conditional update: it takes every lock or none.
ClaimLocks(p, locked, state, operation_type, target) ==
    LET id == Len(entity_operations) + 1
        rollback == {r \in collection_entity_sources : r[1] \in locked}
    IN  /\ collection_entities' =
               [ce \in DOMAIN collection_entities |->
                   IF ce \in locked
                   THEN [collection_entities[ce] EXCEPT !.operation_lock = id,
                                                        !.lifecycle_state = state]
                   ELSE collection_entities[ce]]
        /\ entity_operations' =
               Append(entity_operations,
                      set_rollback_data(
                          NewEntityOperation(operation_type, req[p].sources), rollback))
        /\ req' = [req EXCEPT ![p].opid = id, ![p].locked = locked,
                              ![p].target = target]
        /\ pc' = [pc EXCEPT ![p] = "write"]
        /\ Silent
        /\ UNCHANGED <<documents, file_collection_association, graph_entities,
                       collection, collection_entity_sources, entity_links, collection_relationships, op, call, repovars, schemavars, storevars, cachevars>>

MergeClaim(p) ==
    /\ pc[p] = "claim"
    /\ req[p].op \in {"merge", "confirm_link"}
    /\ LET S == req[p].sources
           locked == UNION {EntitiesUsing(s) : s \in S}
           linked == /\ req[p].op = "confirm_link"
                     /\ req[p].link \in DOMAIN entity_links
                     /\ entity_links[req[p].link].is_active
                     /\ entity_links[req[p].link].collection_entity_uuid \in locked
           target == IF req[p].op = "confirm_link"
                     THEN entity_links[req[p].link].collection_entity_uuid
                     ELSE Min(locked)
       IN  IF /\ collection.exists
              /\ collection.graph_state # "updating"
              /\ \A s \in S : InCollection(s)
              /\ Mergeable(S)
              /\ req[p].op = "confirm_link" => linked
           THEN ClaimLocks(p, locked, "merging", "merged", target)
           ELSE Rejected(p, "conflict")

\* One row of the multi-row write: source s is joined to the target.
MergeWrite(p, s) ==
    /\ Silent
    /\ pc[p] = "write"
    /\ req[p].op \in {"merge", "confirm_link"}
    /\ req[p].written # req[p].sources
    /\ s = Min(req[p].sources \ req[p].written)
    /\ collection_entity_sources' =
           {r \in collection_entity_sources : r[2] # s} \cup {<<req[p].target, s>>}
    /\ req' = [req EXCEPT ![p].written = @ \cup {s}]
    /\ UNCHANGED <<documents, file_collection_association, graph_entities, collection,
                   collection_entities, entity_links, entity_operations, pc, collection_relationships, op, call, repovars, schemavars, storevars, cachevars>>

MergeCommit(p) ==
    /\ pc[p] = "write"
    /\ req[p].op \in {"merge", "confirm_link"}
    /\ req[p].written = req[p].sources
    /\ LET absorbed == req[p].locked \ {req[p].target}
           ces == [ce \in (DOMAIN collection_entities) \ absorbed |->
                      IF ce = req[p].target
                      THEN [is_merged |-> TRUE, lifecycle_state |-> "merged",
                            operation_lock |-> NoLock]
                      ELSE collection_entities[ce]]
           rows == SourcesAfterDelete(collection_entity_sources, {}, absorbed)
           rels == Repointed(collection_relationships, rows)
       IN  /\ collection_entities' = ces
           /\ collection_relationships' = rels
           /\ collection' = Recounted(collection, ces, rels, file_collection_association)
           /\ entity_links' =
                  LET links == LinksAfterDelete(entity_links, {}, absorbed)
                  IN  [l \in DOMAIN links |->
                          IF l = req[p].link
                          THEN [links[l] EXCEPT !.merged_entity_uuid = req[p].target]
                          ELSE links[l]]
           /\ collection_entity_sources' =
                  SourcesAfterDelete(collection_entity_sources, {}, absorbed)
    /\ entity_operations' = [entity_operations EXCEPT
                                ![req[p].opid] = mark_completed(@)]
    /\ Finished(p, "success")
    /\ UNCHANGED <<documents, file_collection_association, graph_entities, op, call, repovars, schemavars, storevars, cachevars>>

\* PersistenceFailure: the rows written are undone from the rollback data,
\* the entities return to their prior state, the locks are released and the
\* operation is marked failed.
Fail(p, state) ==
    /\ pc[p] = "write"
    /\ LET o == entity_operations[req[p].opid]
           rollback == o.operation_data.dict["rollback"]
       IN  /\ collection_entity_sources' =
                  {r \in collection_entity_sources : r[1] \notin req[p].locked}
                      \cup rollback
           /\ collection_entities' =
                  [ce \in DOMAIN collection_entities |->
                      IF ce \in req[p].locked
                      THEN [collection_entities[ce] EXCEPT !.operation_lock = NoLock,
                                                           !.lifecycle_state = state]
                      ELSE collection_entities[ce]]
           /\ entity_operations' = [entity_operations EXCEPT
                                       ![req[p].opid] = mark_failed(@, "PersistenceFailure")]
    /\ Finished(p, "failed")
    /\ UNCHANGED <<documents, file_collection_association, graph_entities, collection,
                   entity_links, collection_relationships, op, call, repovars, schemavars, storevars, cachevars>>

MergeFail(p) ==
    /\ req[p].op \in {"merge", "confirm_link"}
    /\ Fail(p, "individual")

(***************************************************************************)
(* unmerge and split: the sources of a merged entity are divided into the  *)
(* parts of a partition; unmerge is the partition into single sources.     *)
(***************************************************************************)
\* Variant of Singletons that keeps the sources together.
Together(S) == {S}
Singletons(S) == {{s} : s \in S}
Partitions == {{{1}, {2, 3}}, {{1, 2}, {3}}, {{1}, {2}}, {}}

IsPartitionOf(parts, S) ==
    /\ parts # {}
    /\ {} \notin parts
    /\ UNION parts = S
    /\ \A x, y \in parts : x # y => x \cap y = {}

Splittable(ce) ==
    /\ collection_entities[ce].operation_lock = NoLock
    /\ collection_entities[ce].lifecycle_state = "merged"

BeginSplit(p, r) ==
    IF collection.graph_state = "updating" THEN Rejected(p, "conflict")
    ELSE IF \/ r.target \notin DOMAIN collection_entities
            \/ ~IsPartitionOf(r.parts, SourcesOf(r.target))
         THEN Rejected(p, "validation")
    ELSE IF ~Splittable(r.target) THEN Rejected(p, "conflict")
    ELSE Accepted(p, r)

UnmergeBegin(p, ce) ==
    /\ pc[p] = "idle"
    /\ collection.exists
    /\ BeginSplit(p, Request("unmerge", SourcesOf(ce), Singletons(SourcesOf(ce)), ce, 0))

SplitBegin(p, ce, parts) ==
    /\ pc[p] = "idle"
    /\ collection.exists
    /\ BeginSplit(p, Request("split", UNION parts, parts, ce, 0))

SplitClaim(p) ==
    /\ pc[p] = "claim"
    /\ req[p].op \in {"unmerge", "split"}
    /\ LET ce == req[p].target
       IN  IF /\ collection.exists
              /\ collection.graph_state # "updating"
              /\ ce \in DOMAIN collection_entities
              /\ Splittable(ce)
              /\ SourcesOf(ce) = req[p].sources
           THEN ClaimLocks(p, {ce}, "unmerging",
                           IF req[p].op = "unmerge" THEN "unmerged" ELSE "split", ce)
           ELSE Rejected(p, "conflict")

\* The part that holds the smallest source keeps the entity; every other part
\* gets a new one.
SplitCommit(p) ==
    /\ pc[p] = "write"
    /\ req[p].op \in {"unmerge", "split"}
    /\ LET ce == req[p].target
           keeps == CHOOSE part \in req[p].parts : Min(req[p].sources) \in part
           others == req[p].parts \ {keeps}
           heads == {Min(part) : part \in others}
           ids == NewUuids(heads, DOMAIN collection_entities)
           partOf(c) == IF c = ce THEN keeps
                        ELSE CHOOSE part \in others : ids[Min(part)] = c
           row(part) == IF Cardinality(part) >= 2
                        THEN [is_merged |-> TRUE, lifecycle_state |-> "merged",
                              operation_lock |-> NoLock]
                        ELSE NewCollectionEntity
           new == {ids[h] : h \in heads}
           ces == [c \in (DOMAIN collection_entities) \cup new |->
                      IF c \in new \cup {ce} THEN row(partOf(c))
                      ELSE collection_entities[c]]
           rows == {r \in collection_entity_sources : r[1] # ce}
                      \cup {r \in (new \cup {ce}) \X req[p].sources : r[2] \in partOf(r[1])}
           rels == Repointed(collection_relationships, rows)
       IN  /\ collection_entities' = ces
           /\ collection_entity_sources' = rows
           /\ collection_relationships' = rels
           /\ collection' = Recounted(collection, ces, rels, file_collection_association)
    /\ entity_operations' = [entity_operations EXCEPT
                                ![req[p].opid] = mark_completed(@)]
    /\ Finished(p, "success")
    /\ UNCHANGED <<documents, file_collection_association, graph_entities,
                   entity_links, op, call, repovars, schemavars, storevars, cachevars>>

SplitFail(p) ==
    /\ req[p].op \in {"unmerge", "split"}
    /\ Fail(p, "merged")

(***************************************************************************)
(* Entity link resolver (specification 4.2).                               *)
(***************************************************************************)
NewEntityLink(e, ce) ==
    [graph_entity_uuid |-> e, collection_entity_uuid |-> ce,
     is_active |-> DefaultIsActive, merged_entity_uuid |-> 0]

ProposeLink(p, e, ce) ==
    /\ pc[p] = "idle"
    /\ collection.exists
    /\ LET r == Request("propose_link", {e}, {}, ce, 0)
           id == Cardinality(DOMAIN entity_links) + 1
       IN  IF collection.graph_state = "updating" THEN Rejected(p, "conflict")
           ELSE IF ~InCollection(e) \/ ce \notin DOMAIN collection_entities
                   \/ e \in SourcesOf(ce)
                THEN Rejected(p, "validation")
           ELSE /\ id <= MaxLinks
                /\ id \notin DOMAIN entity_links
                /\ entity_links' =
                       [l \in (DOMAIN entity_links) \cup {id} |->
                           IF l = id THEN NewEntityLink(e, ce) ELSE entity_links[l]]
                /\ collection' = Recounted(collection, collection_entities,
                                            collection_relationships,
                                            file_collection_association)
                /\ response' = "success"
                /\ UNCHANGED req
                /\ UNCHANGED <<documents, file_collection_association, graph_entities,
                               collection_entities, collection_entity_sources,
                               collection_relationships, entity_operations, pc, op, call, repovars, schemavars, storevars, cachevars>>

ConfirmLinkBegin(p, l) ==
    /\ pc[p] = "idle"
    /\ collection.exists
    /\ l \in DOMAIN entity_links
    /\ entity_links[l].is_active
    /\ entity_links[l].merged_entity_uuid = 0
    /\ BeginMerge(p, Request("confirm_link",
                             {entity_links[l].graph_entity_uuid}
                                 \cup SourcesOf(entity_links[l].collection_entity_uuid),
                             {}, entity_links[l].collection_entity_uuid, l))

DeactivateLink(p, l) ==
    /\ pc[p] = "idle"
    /\ collection.exists
    /\ l \in DOMAIN entity_links
    /\ entity_links[l].is_active
    /\ IF collection.graph_state = "updating" THEN Rejected(p, "conflict")
       ELSE /\ entity_links' = [entity_links EXCEPT ![l].is_active = FALSE]
            /\ collection' = Recounted(collection, collection_entities,
                                        collection_relationships,
                                        file_collection_association)
            /\ response' = "success"
            /\ UNCHANGED <<documents, file_collection_association, graph_entities,
                           collection_entities, collection_entity_sources,
                           collection_relationships, entity_operations, pc, req, op, call, repovars, schemavars, storevars, cachevars>>

Next ==
    \/ \E p \in Callers : InitializeBegin(p)
    \/ \E p \in Callers : InitializeFinish(p)
    \/ \E p \in Callers : InitializeFail(p)
    \/ DetectDrift
    \/ \E p \in Callers : SyncBegin(p)
    \/ \E p \in Callers : SyncFinish(p)
    \/ \E p \in Callers : SyncFail(p)
    \/ \E p \in Callers, S \in MergeRequests : MergeBegin(p, S)
    \/ \E p \in Callers : MergeClaim(p)
    \/ \E p \in Callers, s \in GraphEntityIds : MergeWrite(p, s)
    \/ \E p \in Callers : MergeCommit(p)
    \/ \E p \in Callers : MergeFail(p)
    \/ \E p \in Callers, ce \in CollectionEntityIds : UnmergeBegin(p, ce)
    \/ \E p \in Callers, ce \in CollectionEntityIds, parts \in Partitions :
          SplitBegin(p, ce, parts)
    \/ \E p \in Callers : SplitClaim(p)
    \/ \E p \in Callers : SplitCommit(p)
    \/ \E p \in Callers : SplitFail(p)
    \/ \E p \in Callers, r \in LinkRequests : ProposeLink(p, r[1], r[2])
    \/ \E p \in Callers, l \in 1..MaxLinks : ConfirmLinkBegin(p, l)
    \/ \E p \in Callers, l \in 1..MaxLinks : DeactivateLink(p, l)
    \/ \E d \in DeletableDocuments : DeleteDocument(d)
    \/ \E e \in DeletableEntities : DeleteGraphEntity(e)
    \/ DeleteCollection

Spec == Init /\ [][Next]_vars

(***************************************************************************)
(* The methods of one EntityOperation object, called in any order on an    *)
(* object in any state a row can be loaded in.                             *)
(***************************************************************************)
OperationData ==
    {Null, Json(EmptyDict)}
        \cup {Json(d) : d \in UNION {[K -> {"x", "y"}] :
                                        K \in SUBSET {"error", "rollback", "note"}}}
EntityOperations ==
    [operation_type : {"merged", "sync_graph"},
     status : Statuses,
     entity_ids : {{}, {1, 2}},
     details : {Null, Json(DictPut(EmptyDict, "note", "x"))},
     operation_data : OperationData,
     performed_at : {1}]
ErrorMessages == {"x", "z"}
RollbackData == {"y", "z"}

OpInit ==
    /\ documents = DocumentIds
    /\ file_collection_association = {"A", "B"}
    /\ graph_entities = GraphEntityIds
    /\ collection = NewCollection
    /\ collection_entities = <<>>
    /\ collection_entity_sources = {}
    /\ collection_relationships = {}
    /\ entity_links = <<>>
    /\ entity_operations = <<>>
    /\ pc = [p \in Callers |-> "idle"]
    /\ req = [p \in Callers |-> NoRequest]
    /\ response = "none"
    /\ call = NoCall
    /\ op \in EntityOperations
    /\ document_table = <<>>
    /\ summaries = {}
    /\ document_versions = {}
    /\ returned = NoResult
    /\ users_table = UserIds
    /\ llm_usage = {}
    /\ collection_relationship_sources = {}
    /\ persisted = NewEntityOperation("merged", {})
    /\ dirty = {}
    /\ cache = <<>>
    /\ now = 0
    /\ threads = [t \in Threads |-> IdleThread]

MarkCompleted ==
    /\ op' = mark_completed(op)
    /\ call' = [method |-> "mark_completed", arg |-> "none"]
    /\ UNCHANGED <<dbvars, pc, req, response, repovars, schemavars, storevars, cachevars>>

MarkFailed(error_message) ==
    /\ op' = mark_failed(op, error_message)
    /\ call' = [method |-> "mark_failed", arg |-> error_message]
    /\ UNCHANGED <<dbvars, pc, req, response, repovars, schemavars, storevars, cachevars>>

SetRollbackData(data) ==
    /\ op' = set_rollback_data(op, data)
    /\ call' = [method |-> "set_rollback_data", arg |-> data]
    /\ UNCHANGED <<dbvars, pc, req, response, repovars, schemavars, storevars, cachevars>>

OpNext ==
    \/ MarkCompleted
    \/ \E e \in ErrorMessages : MarkFailed(e)
    \/ \E d \in RollbackData : SetRollbackData(d)

OpSpec == OpInit /\ [][OpNext]_vars


(***************************************************************************)
(* Properties.                                                             *)
(***************************************************************************)
Merging(p) == pc[p] = "write" /\ req[p].op \in {"merge", "confirm_link"}
Terminal == {"completed", "failed"}

\* C1: two merge attempts on overlapping source entities never hold their
\* locks together; an attempt that claims while one of its sources is locked
\* by the other, or has been merged by it, is rejected as a conflict and
\* writes nothing; an attempt that claims while its sources are individual
\* and unlocked wins its locks, so of two attempts racing from the same
\* state the first to claim goes on and the second is rejected.
MergeAtomicity ==
    /\ [](\A p, q \in Callers :
            (p # q /\ Merging(p) /\ Merging(q)) =>
                /\ req[p].sources \cap req[q].sources = {}
                /\ req[p].locked \cap req[q].locked = {})
    /\ [][\A q \in Callers :
            (/\ pc[q] = "claim"
             /\ req[q].op \in {"merge", "confirm_link"}
             /\ pc'[q] # "claim") =>
                LET S == req[q].sources
                    taken == \E s \in S : \E ce \in EntitiesUsing(s) :
                                \/ collection_entities[ce].operation_lock # NoLock
                                \/ collection_entities[ce].lifecycle_state # "individual"
                    free == \A s \in S : \E ce \in EntitiesUsing(s) :
                                /\ EntitiesUsing(s) = {ce}
                                /\ SourcesOf(ce) = {s}
                                /\ collection_entities[ce].operation_lock = NoLock
                                /\ collection_entities[ce].lifecycle_state = "individual"
                IN  /\ taken => /\ pc'[q] = "idle"
                                /\ response' = "conflict"
                                /\ UNCHANGED dbvars
                    /\ pc'[q] = "idle" => /\ response' = "conflict"
                                          /\ UNCHANGED dbvars
                    /\ (/\ free
                        /\ collection.graph_state # "updating"
                        /\ req[q].op = "merge") =>
                           /\ pc'[q] = "write"
                           /\ \A s \in S : \A ce \in EntitiesUsing(s) :
                                 collection_entities'[ce].operation_lock = req'[q].opid
          ]_vars

\* C1 witness: one attempt holds the locks of all three sources and the
\* other caller has just been told of a conflict.
MergeAtomicityWitness ==
    \E p, q \in Callers :
        /\ p # q
        /\ Merging(p)
        /\ req[p].sources = {1, 2, 3}
        /\ pc[q] = "idle"
        /\ response = "conflict"

\* C2: every collection entity with is_merged = TRUE has at least two source
\* rows and every collection entity in lifecycle state individual has
\* exactly one.
SourceCountInvariant ==
    \A ce \in DOMAIN collection_entities :
        /\ collection_entities[ce].is_merged => Cardinality(SourcesOf(ce)) >= 2
        /\ collection_entities[ce].lifecycle_state = "individual" =>
               Cardinality(SourcesOf(ce)) = 1

\* C3: no step removes a row of entity_operations: every row recorded is
\* still in the ledger after the step, the deletion of the collection
\* included.
LedgerNeverShrinks ==
    [][/\ Len(entity_operations') >= Len(entity_operations)
       /\ \A i \in 1..Len(entity_operations) :
             /\ entity_operations'[i].operation_type = entity_operations[i].operation_type
             /\ entity_operations'[i].performed_at = entity_operations[i].performed_at
      ]_vars

OtherFields == {"operation_type", "entity_ids", "details", "performed_at"}
MarkFrame ==
    [][/\ call'.method = "mark_completed" =>
             /\ op'.status = "completed"
             /\ op'.operation_data = op.operation_data
             /\ \A f \in OtherFields : op'[f] = op[f]
       /\ call'.method = "mark_failed" =>
             /\ op'.status = "failed"
             /\ ~op'.operation_data.null
             /\ DOMAIN op'.operation_data.dict
                    = (DOMAIN op.operation_data.dict) \cup {"error"}
             /\ op'.operation_data.dict["error"] = call'.arg
             /\ \A k \in (DOMAIN op.operation_data.dict) \ {"error"} :
                   op'.operation_data.dict[k] = op.operation_data.dict[k]
             /\ \A f \in OtherFields : op'[f] = op[f]
      ]_vars

\* C5 witness: mark_failed was called on an operation whose operation_data
\* held other keys, and they are all still there beside the error.
MarkFrameWitness ==
    /\ call.method = "mark_failed"
    /\ op.status = "failed"
    /\ DOMAIN op.operation_data.dict = {"error", "rollback", "note"}
    /\ op.operation_data.dict["error"] = "z"
    /\ op.entity_ids = {1, 2}

\* C6: while graph_state is updating, every step other than a step of an
\* operation already in flight or a deletion of stored documents is a request
\* that is answered with a conflict: nothing stored changes, graph_state
\* stays updating, and the caller is idle with no request kept.
InFlight == {"write", "init", "sync"}
UpdatingRejects ==
    [][(/\ collection.exists
        /\ collection.graph_state = "updating"
        /\ collection'.exists
        /\ documents' = documents
        /\ graph_entities' = graph_entities
        /\ \A p \in Callers :
              pc[p] \in InFlight => (pc'[p] = pc[p] /\ req'[p] = req[p])) =>
            /\ response' = "conflict"
            /\ UNCHANGED dbvars
            /\ collection'.graph_state = "updating"
            /\ \A p \in Callers :
                  pc[p] \notin InFlight => (pc'[p] = "idle" /\ req'[p] = NoRequest)
      ]_vars

\* C6 witness: a sync is in flight, graph_state is updating, a collection
\* entity is merged, and the last request was answered with a conflict.
UpdatingRejectsWitness ==
    /\ collection.graph_state = "updating"
    /\ \E p \in Callers : pc[p] = "sync"
    /\ \E ce \in DOMAIN collection_entities : collection_entities[ce].is_merged
    /\ response = "conflict"

\* C7: graph_state starts as uninitialized, is always one of the six states,
\* and changes only along uninitialized -> initializing -> synchronized,
\* synchronized -> out_of_sync, out_of_sync -> updating, error -> updating,
\* updating -> synchronized, and from an active state to error.
ActiveStates == {"initializing", "synchronized", "out_of_sync", "updating"}
GraphStateEdges ==
    {<<"uninitialized", "initializing">>, <<"initializing", "synchronized">>,
     <<"synchronized", "out_of_sync">>, <<"out_of_sync", "updating">>,
     <<"error", "updating">>, <<"updating", "synchronized">>}
        \cup (ActiveStates \X {"error"})
GraphStateMachine ==
    /\ collection.graph_state = "uninitialized"
    /\ [](collection.graph_state \in GraphStates)
    /\ [][collection'.graph_state # collection.graph_state =>
             <<collection.graph_state, collection'.graph_state>> \in GraphStateEdges
         ]_vars
    /\ [][\A p \in Callers :
             /\ (pc[p] = "idle" /\ pc'[p] = "init") =>
                    collection.graph_state = "uninitialized"
             /\ (pc[p] = "idle" /\ pc'[p] = "sync") =>
                    collection.graph_state \in {"out_of_sync", "error"}
         ]_vars

\* C7 witness: the collection went through initialize, drift and a failed
\* sync, and a second sync from error has been accepted.
GraphStateMachineWitness ==
    /\ collection.graph_state = "updating"
    /\ Len(entity_operations) = 3
    /\ entity_operations[1].operation_type = "initialize_graph"
    /\ entity_operations[1].status = "completed"
    /\ entity_operations[2].operation_type = "sync_graph"
    /\ entity_operations[2].status = "failed"
    /\ entity_operations[3].operation_type = "sync_graph"
    /\ entity_operations[3].status = "pending"

\* C8: the step that ends a merge of S with success leaves exactly one
\* collection entity joined to sources of S; it is joined to every element
\* of S by one row each and to nothing else, has is_merged TRUE,
\* lifecycle_state merged and no operation_lock; and the operation of the
\* merge, and no other, becomes completed.  After confirm_link the link
\* points at that entity.
MergeResult ==
    [][\A p \in Callers :
          (Merging(p) /\ pc'[p] = "idle" /\ response' = "success") =>
              LET S == req[p].sources
                  users == {ce \in DOMAIN collection_entities' :
                               SourcesIn(collection_entity_sources', ce) \cap S # {}}
              IN  /\ Cardinality(users) = 1
                  /\ \A ce \in users :
                        /\ SourcesIn(collection_entity_sources', ce) = S
                        /\ collection_entities'[ce].is_merged
                        /\ collection_entities'[ce].lifecycle_state = "merged"
                        /\ collection_entities'[ce].operation_lock = NoLock
                        /\ req[p].op = "confirm_link" =>
                              /\ req[p].link \in DOMAIN entity_links'
                              /\ entity_links'[req[p].link].merged_entity_uuid = ce
                  /\ Cardinality({r \in collection_entity_sources' : r[2] \in S})
                         = Cardinality(S)
                  /\ \A r \in collection_entity_sources' :
                        r[1] \in DOMAIN collection_entities'
                  /\ Len(entity_operations') = Len(entity_operations)
                  /\ {i \in 1..Len(entity_operations) :
                         entity_operations'[i] # entity_operations[i]} = {req[p].opid}
                  /\ entity_operations'[req[p].opid].status = "completed"
                  /\ entity_operations'[req[p].opid].operation_type = "merged"
                  /\ entity_operations'[req[p].opid].entity_ids = S
      ]_vars

\* C8 witness: confirm_link has ended with success: the link points at a
\* merged entity joined to both sources and the merge is in the ledger as
\* completed.
MergeResultWitness ==
    /\ response = "success"
    /\ \E l \in DOMAIN entity_links :
          LET ce == entity_links[l].merged_entity_uuid
          IN  /\ ce \in DOMAIN collection_entities
              /\ collection_entities[ce].is_merged
              /\ collection_entities[ce].lifecycle_state = "merged"
              /\ SourcesOf(ce) = {1, 2}
    /\ \E i \in 1..Len(entity_operations) :
          /\ entity_operations[i].operation_type = "merged"
          /\ entity_operations[i].status = "completed"
          /\ entity_operations[i].entity_ids = {1, 2}

\* C9: the step that ends the unmerge of a merged entity with success leaves,
\* for every source s the entity had, exactly one collection entity joined
\* to s; it is joined to s alone, is individual, not merged and unlocked; and
\* no collection entity is joined to two of those sources.
UnmergeInverse ==
    [][\A p \in Callers :
          (/\ pc[p] = "write"
           /\ req[p].op = "unmerge"
           /\ pc'[p] = "idle"
           /\ response' = "success") =>
              LET S == req[p].sources
              IN  /\ \A s \in S :
                        \E ce \in DOMAIN collection_entities' :
                            /\ UsingIn(collection_entity_sources', s) = {ce}
                            /\ SourcesIn(collection_entity_sources', ce) = {s}
                            /\ collection_entities'[ce].lifecycle_state = "individual"
                            /\ ~collection_entities'[ce].is_merged
                            /\ collection_entities'[ce].operation_lock = NoLock
                  /\ \A ce \in DOMAIN collection_entities' :
                        Cardinality(SourcesIn(collection_entity_sources', ce) \cap S) <= 1
                  /\ entity_operations'[req[p].opid].status = "completed"
                  /\ entity_operations'[req[p].opid].operation_type = "unmerged"
      ]_vars

\* C9 witness: the three sources were merged and the merge was unmerged:
\* both operations are completed over the same three sources, and each
\* source has its own individual entity again.
UnmergeInverseWitness ==
    /\ response = "success"
    /\ \E i, j \in 1..Len(entity_operations) :
          /\ i < j
          /\ entity_operations[i].operation_type = "merged"
          /\ entity_operations[i].status = "completed"
          /\ entity_operations[i].entity_ids = {1, 2, 3}
          /\ entity_operations[j].operation_type = "unmerged"
          /\ entity_operations[j].status = "completed"
          /\ entity_operations[j].entity_ids = {1, 2, 3}
    /\ \A s \in {1, 2, 3} :
          \E ce \in DOMAIN collection_entities :
              /\ EntitiesUsing(s) = {ce}
              /\ SourcesOf(ce) = {s}
              /\ collection_entities[ce].lifecycle_state = "individual"

\* C10: every step that changes graph_state, or the lifecycle_state of a
\* collection entity, writes exactly one EntityOperation (appends it or
\* changes its status), and operations end in the order of their
\* performed_at: when an operation is marked completed or failed, no
\* operation with a later performed_at has already been marked.
Touched ==
    {i \in 1..Len(entity_operations') :
        \/ i > Len(entity_operations)
        \/ entity_operations'[i].status # entity_operations[i].status}
StateChanged ==
    \/ collection'.graph_state # collection.graph_state
    \/ \E ce \in (DOMAIN collection_entities) \cap (DOMAIN collection_entities') :
          collection_entities'[ce].lifecycle_state
              # collection_entities[ce].lifecycle_state
LedgerCompleteness ==
    [][collection'.exists =>
          /\ StateChanged => Cardinality(Touched) = 1
          /\ \A i \in 1..Len(entity_operations) :
                (/\ entity_operations[i].status \notin Terminal
                 /\ entity_operations'[i].status \in Terminal) =>
                    \A j \in 1..Len(entity_operations) :
                        entity_operations[j].status \in Terminal =>
                            entity_operations[j].performed_at
                                < entity_operations[i].performed_at
      ]_vars

\* C13: an EntityOperation enters the ledger with status pending, and the
\* status of every EntityOperation is always one of pending, in_progress,
\* completed, failed.
StatusDomain ==
    /\ [](\A i \in 1..Len(entity_operations) :
            entity_operations[i].status \in Statuses)
    /\ [][\A i \in 1..Len(entity_operations') :
             i > Len(entity_operations) => entity_operations'[i].status = "pending"
         ]_vars

\* C13 witness: the ledger holds a completed initialize_graph, a failed merge
\* and a merge just recorded.
StatusDomainWitness ==
    /\ Len(entity_operations) = 3
    /\ entity_operations[1].status = "completed"
    /\ entity_operations[2].operation_type = "merged"
    /\ entity_operations[2].status = "failed"
    /\ entity_operations[3].operation_type = "merged"
    /\ entity_operations[3].status = "pending"

\* C14: set_rollback_data stores the data under operation_data["rollback"],
\* keeps the status, every other key of operation_data and every other field;
\* and it commutes with mark_failed: in either order operation_data ends
\* with rollback = d, error = e and every other key as it was.
RollbackCommutes ==
    /\ [](\A d \in RollbackData, e \in ErrorMessages :
            LET a == mark_failed(set_rollback_data(op, d), e)
                b == set_rollback_data(mark_failed(op, e), d)
                old == op.operation_data.dict
            IN  /\ a = b
                /\ ~a.operation_data.null
                /\ DOMAIN a.operation_data.dict = (DOMAIN old) \cup {"rollback", "error"}
                /\ a.operation_data.dict["rollback"] = d
                /\ a.operation_data.dict["error"] = e
                /\ \A k \in (DOMAIN old) \ {"rollback", "error"} :
                      a.operation_data.dict[k] = old[k])
    /\ [][call'.method = "set_rollback_data" =>
             /\ op'.status = op.status
             /\ ~op'.operation_data.null
             /\ DOMAIN op'.operation_data.dict
                    = (DOMAIN op.operation_data.dict) \cup {"rollback"}
             /\ op'.operation_data.dict["rollback"] = call'.arg
             /\ \A k \in (DOMAIN op.operation_data.dict) \ {"rollback"} :
                   op'.operation_data.dict[k] = op.operation_data.dict[k]
             /\ \A f \in OtherFields : op'[f] = op[f]
         ]_vars

\* C14 witness: mark_failed and then set_rollback_data were called on an
\* operation that held a note: the error, the rollback data and the note are
\* all there.
RollbackCommutesWitness ==
    /\ call.method = "set_rollback_data"
    /\ op.status = "failed"
    /\ DOMAIN op.operation_data.dict = {"error", "rollback", "note"}
    /\ op.operation_data.dict["error"] = "z"
    /\ op.operation_data.dict["rollback"] = "z"

\* C11: a merge request that names a source entity of a document outside the
\* collection can always be made, and every way it is answered is a
\* rejection that changes no stored row, no lock and no caller: with a
\* validation failure, unless the collection is updating.
OutsideRequests == {S \in MergeRequests : \E s \in S : ~InCollection(s)}
RefusedUnchanged(result) ==
    /\ response' = result
    /\ UNCHANGED <<dbvars, pc, req>>
CachedCounts ==
    (response = "success" /\ collection.exists) =>
        /\ collection.entity_count = Cardinality(DOMAIN collection_entities)
        /\ collection.relationship_count = Cardinality(collection_relationships)
        /\ collection.document_count = Cardinality(file_collection_association)

\* C12 witness: a document was deleted after the counts were first taken, and
\* a merge has completed since: one merged entity, the relationship of the
\* collection and one document are counted.
CachedCountsWitness ==
    /\ response = "success"
    /\ collection.exists
    /\ Cardinality(file_collection_association) = 1
    /\ collection.document_count = 1
    /\ collection.relationship_count = 1
    /\ \E ce \in DOMAIN collection_entities : collection_entities[ce].is_merged


-----------------------------------------------------------------------------
(* Python strings and uuid.UUID values.                                     *)

\* A string is the sequence of its characters.
Repeat(c, n) == [i \in 1..n |-> c]
HexDigits == {"0", "1", "2", "3", "4", "5", "6", "7", "8", "9",
              "a", "b", "c", "d", "e", "f"}
\* A uuid.UUID is its 32 hex digits. UuidA1 and UuidB1 end in the same eight.
UuidA1 == Repeat("a", 24) \o Repeat("1", 8)
UuidB1 == Repeat("b", 24) \o Repeat("1", 8)
UuidA2 == Repeat("a", 24) \o Repeat("2", 8)
Uuids == {UuidA1, UuidB1, UuidA2}

\* str(u) of a uuid.UUID: the digits in groups of 8-4-4-4-12.
Str(u) ==
    SubSeq(u, 1, 8) \o <<"-">> \o SubSeq(u, 9, 12) \o <<"-">> \o
    SubSeq(u, 13, 16) \o <<"-">> \o SubSeq(u, 17, 20) \o <<"-">> \o
    SubSeq(u, 21, 32)
\* s.replace(old, '') for a one-character old.
Replace(s, old) == SelectSeq(s, LAMBDA c : c # old)
\* s[:n]
FirstChars(s, n) == IF Len(s) <= n THEN s ELSE SubSeq(s, 1, n)
\* s[-n:]
LastChars(s, n) == IF Len(s) <= n THEN s ELSE SubSeq(s, Len(s) - n + 1, Len(s))
\* str(uuid_val).replace('-', '')[:8]: the first eight digits instead of the
\* last.
ShortIdFirst(u) == FirstChars(Replace(Str(u), "-"), 8)
\* str(uuid_val).replace('-', '')[-8:]
ShortId(u) == LastChars(Replace(Str(u), "-"), 8)

\* UUID(s): the hyphens are dropped, and anything but 32 hex digits is a
\* ValueError.
UUID(s) ==
    LET hex == Replace(s, "-")
    IN  IF Len(hex) = 32 /\ \A i \in 1..32 : hex[i] \in HexDigits
        THEN [raised |-> "none", value |-> hex]
        ELSE [raised |-> "ValueError", value |-> <<>>]

\* Values of the Python types an identifier can be passed as.
PyUUID(u) == [type |-> "UUID", v |-> u]
PyStr(s) == [type |-> "str", v |-> s]
PyInt == [type |-> "int", v |-> <<"7">>]
PyNone == [type |-> "NoneType", v |-> <<>>]

\* Exceptions that derive from Exception, and one that derives from
\* BaseException only.
Exceptions == {"ValueError", "TypeError", "IntegrityError", "RuntimeError"}
CancelledError == "CancelledError"

-----------------------------------------------------------------------------
(* DualIdMixin and the documents table.                                     *)

\* DualIdMixin.__init__: the id is derived when no id is passed; the uuid is
\* generated when neither is passed.
DualIdInit(kwargs, new_uuid) ==
    IF "uuid" \in DOMAIN kwargs /\ "id" \notin DOMAIN kwargs
    THEN DictPut(kwargs, "id", ShortId(kwargs["uuid"]))
    ELSE IF "uuid" \notin DOMAIN kwargs /\ "id" \notin DOMAIN kwargs
         THEN DictPut(DictPut(kwargs, "uuid", new_uuid), "id", ShortId(new_uuid))
         ELSE kwargs

\* Document.version: default=1.
DefaultVersion == 1
\* The row INSERT writes for a Document object: the object's attributes and
\* the column defaults of the others.
DocumentRow(obj, new_uuid) ==
    [uuid |-> IF "uuid" \in DOMAIN obj THEN obj["uuid"] ELSE new_uuid,
     id |-> obj["id"],
     title |-> obj["title"],
     content |-> obj["content"],
     version |-> DefaultVersion,
     has_summary |-> FALSE,
     has_versions |-> FALSE]

\* uuid is the primary key.
PrimaryKeyTaken(docs, row) == row.uuid \in DOMAIN docs
\* A table without the unique constraint on id.
IdNeverTaken(docs, row) == FALSE
\* id is unique=True.
IdTaken(docs, row) == \E u \in DOMAIN docs : docs[u].id = row.id

\* The Summary a dict makes, and the columns Summary(**summary) accepts.
SummaryColumns == {"document_uuid", "content", "summary_type"}
SummaryRow(obj) == [document_uuid |-> obj["document_uuid"], content |-> obj["content"]]

\* A session over the tables: what it reads, and the objects added to it
\* and not yet flushed.
Session(docs, sums, vers) ==
    [documents |-> docs, summaries |-> sums, document_versions |-> vers,
     new |-> <<>>]
Database == Session(document_table, summaries, document_versions)
add(session, kind, obj) ==
    [session EXCEPT !.new = Append(@, [kind |-> kind, obj |-> obj])]

\* session.flush(): the added objects are inserted in the order they were
\* added; a constraint that fails raises IntegrityError.
RECURSIVE flush(_, _)
flush(session, new_uuid) ==
    IF session.new = <<>>
    THEN [raised |-> "none", session |-> session]
    ELSE LET o == Head(session.new)
             rest == [session EXCEPT !.new = Tail(@)]
         IN  IF o.kind = "Document"
             THEN LET row == DocumentRow(o.obj, new_uuid)
                  IN  IF \/ PrimaryKeyTaken(session.documents, row)
                         \/ IdTaken(session.documents, row)
                      THEN [raised |-> "IntegrityError", session |-> session]
                      ELSE flush([rest EXCEPT !.documents = (row.uuid :> row) @@ @],
                                 new_uuid)
             ELSE flush([rest EXCEPT !.summaries = @ \cup {SummaryRow(o.obj)}],
                        new_uuid)

\* ON DELETE CASCADE and cascade="all, delete-orphan" of Document.versions
\* and Document.summaries.
WithoutDocument(rows, uuid) == {r \in rows : r.document_uuid # uuid}
Without(docs, uuid) == [u \in DOMAIN docs \ {uuid} |-> docs[u]]

-----------------------------------------------------------------------------
(* BaseRepository.                                                          *)

\* Optional[T]: None is the empty set.
None == {}

find_by_uuid(docs, uuid) ==
    [value |-> IF uuid \in DOMAIN docs THEN {docs[uuid]} ELSE None,
     queried |-> TRUE]
\* A lookup by short id that matches no row.
find_by_no_id(docs, short_id) == [value |-> None, queried |-> TRUE]
\* filter_by(id=short_id).first()
find_by_short_id(docs, short_id) ==
    LET found == {u \in DOMAIN docs : docs[u].id = short_id}
    IN  [value |-> IF found = {} THEN None ELSE {docs[CHOOSE u \in found : TRUE]},
         queried |-> TRUE]
find_by_id(docs, id_value) ==
    IF id_value.type = "UUID"
    THEN find_by_uuid(docs, id_value.v)
    ELSE IF id_value.type = "str"
         THEN IF Len(id_value.v) = 8
              THEN find_by_short_id(docs, id_value.v)
              ELSE LET uuid_obj == UUID(id_value.v)
                   IN  IF uuid_obj.raised = "none"
                       THEN find_by_uuid(docs, uuid_obj.value)
                       ELSE [value |-> None, queried |-> FALSE]
         ELSE [value |-> None, queried |-> FALSE]

\* create: the object is built, added and committed; an SQLAlchemyError is
\* raised again as RuntimeError.
create(db, entity, new_uuid) ==
    LET db_entity == DualIdInit(entity, new_uuid)
        f == flush(add(db, "Document", db_entity), new_uuid)
    IN  IF f.raised = "none"
        THEN [raised |-> "none", db |-> f.session,
              value |-> {DocumentRow(db_entity, new_uuid)}]
        ELSE [raised |-> "RuntimeError", db |-> db, value |-> None]

\* update: None when the row is not found, else the attributes are set.
update(db, uuid, entity) ==
    IF uuid \notin DOMAIN db.documents
    THEN [raised |-> "none", db |-> db, value |-> None]
    ELSE LET row == [db.documents[uuid] EXCEPT !.title = entity["title"]]
         IN  [raised |-> "none",
              db |-> [db EXCEPT !.documents[uuid] = row],
              value |-> {row}]

\* delete: False when the row is not found; else the row goes, and with it
\* its versions and summaries.
delete(db, uuid) ==
    IF uuid \notin DOMAIN db.documents
    THEN [raised |-> "none", db |-> db, value |-> FALSE]
    ELSE [raised |-> "none",
          db |-> [db EXCEPT !.documents = Without(@, uuid),
                            !.summaries = WithoutDocument(@, uuid),
                            !.document_versions = WithoutDocument(@, uuid)],
          value |-> TRUE]

\* A transaction that keeps what the operation flushed before it raised.
transaction_keeping(db, out, new_uuid) ==
    LET commit == flush(out.session, new_uuid)
    IN  IF out.raised = "none" /\ commit.raised = "none"
        THEN [raised |-> "none", db |-> commit.session, value |-> out.value]
        ELSE [raised |-> "RuntimeError", db |-> [out.session EXCEPT !.new = <<>>],
              value |-> None]
\* transaction: out is what the operation did in the session. When it
\* returned, the session is committed; an Exception, of the operation or of
\* the commit, is rolled back and raised again as RuntimeError; any other
\* exception leaves the with block, which closes the session, and goes on.
transaction(db, out, new_uuid) ==
    LET commit == flush(out.session, new_uuid)
    IN  IF out.raised = "none"
        THEN IF commit.raised = "none"
             THEN [raised |-> "none", db |-> commit.session, value |-> out.value]
             ELSE [raised |-> "RuntimeError", db |-> db, value |-> None]
        ELSE IF out.raised \in Exceptions
             THEN [raised |-> "RuntimeError", db |-> db, value |-> None]
             ELSE [raised |-> out.raised, db |-> db, value |-> None]

-----------------------------------------------------------------------------
(* DocumentRepository.                                                      *)

\* _create_both without the line that sets has_summary.
create_both_unflagged(session, document, summary, new_uuid) ==
    LET db_document == DualIdInit(document, new_uuid)
        f == flush(add(session, "Document", db_document), new_uuid)
        row == DocumentRow(db_document, new_uuid)
        db_summary == DictPut(summary, "document_uuid", row.uuid)
    IN  IF f.raised # "none"
        THEN [raised |-> f.raised, session |-> f.session, value |-> None]
        ELSE IF ~(DOMAIN db_summary \subseteq SummaryColumns)
             THEN [raised |-> "TypeError", session |-> f.session, value |-> None]
             ELSE [raised |-> "none",
                   session |-> add(f.session, "Summary", db_summary),
                   value |-> {row}]
\* _create_both of create_with_summary: the document is added and flushed,
\* the summary is built with its uuid and added, has_summary is set.
create_both(session, document, summary, new_uuid) ==
    LET db_document == DualIdInit(document, new_uuid)
        f == flush(add(session, "Document", db_document), new_uuid)
        row == DocumentRow(db_document, new_uuid)
        db_summary == DictPut(summary, "document_uuid", row.uuid)
    IN  IF f.raised # "none"
        THEN [raised |-> f.raised, session |-> f.session, value |-> None]
        ELSE IF ~(DOMAIN db_summary \subseteq SummaryColumns)
             THEN [raised |-> "TypeError", session |-> f.session, value |-> None]
             ELSE [raised |-> "none",
                   session |-> [add(f.session, "Summary", db_summary)
                                   EXCEPT !.documents[row.uuid].has_summary = TRUE],
                   value |-> {[row EXCEPT !.has_summary = TRUE]}]
create_with_summary(db, document, summary, new_uuid) ==
    transaction(db, create_both(db, document, summary, new_uuid), new_uuid)

\* The columns of document_versions that are NOT NULL, those of them the
\* server fills, and those the INSERT of _update_with_version names.
VersionNotNull ==
    {"uuid", "id", "document_uuid", "version", "content", "title", "status",
     "created_by_uuid", "created_at", "file_path", "content_type"}
VersionServerDefaults == {"created_at"}
VersionInserted ==
    {"document_uuid", "version", "content", "title", "change_description",
     "created_by_uuid", "file_path", "content_type"}
\* session.execute of the INSERT: a NOT NULL column that gets no value
\* fails the statement.
execute_insert(session, version) ==
    IF VersionNotNull \ (VersionInserted \cup VersionServerDefaults) # {}
    THEN [raised |-> "IntegrityError", session |-> session]
    ELSE [raised |-> "none",
          session |-> [session EXCEPT !.document_versions = @ \cup {version}]]
\* _update_with_version: ValueError for an unknown uuid; else the version
\* row is inserted, the fields are set, version is incremented and
\* has_versions is set.
update_version(session, uuid, document) ==
    IF uuid \notin DOMAIN session.documents
    THEN [raised |-> "ValueError", session |-> session, value |-> None]
    ELSE LET current == session.documents[uuid]
             version == [document_uuid |-> uuid,
                         version |-> current.version + 1,
                         content |-> current.content,
                         title |-> current.title]
             ins == execute_insert(session, version)
             row == [current EXCEPT !.title = document["title"],
                                    !.version = @ + 1,
                                    !.has_versions = TRUE]
         IN  IF ins.raised # "none"
             THEN [raised |-> ins.raised, session |-> ins.session, value |-> None]
             ELSE [raised |-> "none",
                   session |-> [ins.session EXCEPT !.documents[uuid] = row],
                   value |-> {row}]
update_with_version(db, uuid, document) ==
    transaction(db, update_version(db, uuid, document), UuidA1)

\* An operation passed to transaction: a list of statements, run in order.
RECURSIVE run(_, _, _)
run(session, operation, new_uuid) ==
    IF operation = <<>>
    THEN [raised |-> "none", session |-> session, value |-> {"done"}]
    ELSE LET st == Head(operation)
         IN  IF st.do = "add"
             THEN run(add(session, "Document", DualIdInit(st.entity, new_uuid)),
                      Tail(operation), new_uuid)
             ELSE IF st.do = "flush"
                  THEN LET f == flush(session, new_uuid)
                       IN  IF f.raised = "none"
                           THEN run(f.session, Tail(operation), new_uuid)
                           ELSE [raised |-> f.raised, session |-> f.session,
                                 value |-> None]
                  ELSE [raised |-> st.exc, session |-> session, value |-> None]

-----------------------------------------------------------------------------
(* The calls made on the repository.                                        *)

Title1 == "t1"
Title2 == "t2"
Content1 == "c1"
ExplicitId == <<"d", "o", "c", "1">>
Fields == [title |-> Title1, content |-> Content1]
\* The dicts a document is created from: with a uuid, with neither uuid nor
\* id, with both, with an id alone.
DocumentInputs ==
    {Fields} \cup {DictPut(Fields, "uuid", u) : u \in Uuids}
        \cup {DictPut(DictPut(Fields, "uuid", UuidA2), "id", ExplicitId),
              DictPut(Fields, "id", ExplicitId)}
SummaryInputs == {[content |-> "s1"], [content |-> "s1", text |-> "s1"]}
UpdateInputs == {[title |-> Title2]}
IdInputs ==
    {PyUUID(u) : u \in Uuids} \cup {PyStr(Str(u)) : u \in Uuids}
        \cup {PyStr(ShortId(u)) : u \in Uuids}
        \cup {PyStr(ExplicitId), PyInt, PyNone}
Add(entity) == [do |-> "add", entity |-> entity, exc |-> "none"]
Flush == [do |-> "flush", entity |-> <<>>, exc |-> "none"]
Raise(exc) == [do |-> "raise", entity |-> <<>>, exc |-> exc]
Operations ==
    UNION {{<<Add(d)>>,
            <<Add(d), Raise("ValueError")>>,
            <<Add(d), Flush, Raise("ValueError")>>,
            <<Add(d), Flush, Raise(CancelledError)>>}
           : d \in {DictPut(Fields, "uuid", UuidA1), DictPut(Fields, "uuid", UuidB1)}}

\* uuid4() is called only when the dict carries no uuid.
Generated(entity) == IF "uuid" \in DOMAIN entity THEN {UuidA1} ELSE Uuids

Stored(out) ==
    /\ document_table' = out.db.documents
    /\ summaries' = out.db.summaries
    /\ document_versions' = out.db.document_versions

enginevars == <<dbvars, pc, req, response, call, op, schemavars, storevars, cachevars>>

Create(entity, new_uuid) ==
    LET out == create(Database, entity, new_uuid)
    IN  /\ Stored(out)
        /\ returned' = [method |-> "create", arg |-> entity,
                        entity |-> DualIdInit(entity, new_uuid),
                        raised |-> out.raised, value |-> out.value]
        /\ UNCHANGED enginevars

FindById(id_value) ==
    LET out == find_by_id(document_table, id_value)
    IN  /\ returned' = [method |-> "find_by_id", arg |-> id_value,
                        raised |-> "none", value |-> out.value,
                        queried |-> out.queried]
        /\ UNCHANGED <<enginevars, document_table, summaries, document_versions>>

Update(uuid, entity) ==
    LET out == update(Database, uuid, entity)
    IN  /\ Stored(out)
        /\ returned' = [method |-> "update", arg |-> uuid,
                        raised |-> out.raised, value |-> out.value]
        /\ UNCHANGED enginevars

Delete(uuid) ==
    LET out == delete(Database, uuid)
    IN  /\ Stored(out)
        /\ returned' = [method |-> "delete", arg |-> uuid,
                        raised |-> out.raised, value |-> out.value]
        /\ UNCHANGED enginevars

Transaction(operation, new_uuid) ==
    LET inner == run(Database, operation, new_uuid)
        out == transaction(Database, inner, new_uuid)
    IN  /\ Stored(out)
        /\ returned' = [method |-> "transaction", arg |-> operation,
                        inner |-> inner.raised,
                        raised |-> out.raised, value |-> out.value]
        /\ UNCHANGED enginevars

CreateWithSummary(document, summary, new_uuid) ==
    LET out == create_with_summary(Database, document, summary, new_uuid)
    IN  /\ Stored(out)
        /\ returned' = [method |-> "create_with_summary", arg |-> document,
                        summary |-> summary,
                        entity |-> DualIdInit(document, new_uuid),
                        uuid |-> DocumentRow(DualIdInit(document, new_uuid),
                                             new_uuid).uuid,
                        inner |-> create_both(Database, document, summary,
                                              new_uuid).raised,
                        raised |-> out.raised, value |-> out.value]
        /\ UNCHANGED enginevars

UpdateWithVersion(uuid, document) ==
    LET out == update_with_version(Database, uuid, document)
    IN  /\ Stored(out)
        /\ returned' = [method |-> "update_with_version", arg |-> uuid,
                        inner |-> update_version(Database, uuid, document).raised,
                        raised |-> out.raised, value |-> out.value]
        /\ UNCHANGED enginevars

RepoNext ==
    \/ \E entity \in DocumentInputs : \E new_uuid \in Generated(entity) :
           Create(entity, new_uuid)
    \/ \E id_value \in IdInputs : FindById(id_value)
    \/ \E uuid \in Uuids, entity \in UpdateInputs : Update(uuid, entity)
    \/ \E uuid \in Uuids : Delete(uuid)
    \/ \E operation \in Operations : Transaction(operation, UuidA1)
    \/ \E document \in DocumentInputs, summary \in SummaryInputs :
           \E new_uuid \in Generated(document) :
               CreateWithSummary(document, summary, new_uuid)
    \/ \E uuid \in Uuids, document \in UpdateInputs :
           UpdateWithVersion(uuid, document)

RepoSpec == Init /\ [][RepoNext]_vars

-----------------------------------------------------------------------------
(* Properties of the repositories.                                          *)

\* The last call constructed a document.
Constructed(r) == r.method \in {"create", "create_with_summary"}

\* C15: every document constructed without an explicit id has an id of
\* exactly 8 characters, the last 8 hex digits of its uuid, whether the uuid
\* was passed (it is kept as passed) or generated; and the row that is stored
\* has that uuid and that id.
DerivedId ==
    [][(Constructed(returned') /\ "id" \notin DOMAIN returned'.arg) =>
          LET e == returned'.entity
          IN  /\ "uuid" \in DOMAIN e /\ "id" \in DOMAIN e
              /\ Len(e["id"]) = 8
              /\ e["id"] = SubSeq(e["uuid"], 25, 32)
              /\ "uuid" \in DOMAIN returned'.arg => e["uuid"] = returned'.arg["uuid"]
              /\ returned'.raised = "none" =>
                    /\ e["uuid"] \in DOMAIN document_table'
                    /\ document_table'[e["uuid"]].id = e["id"]]_vars

\* C15 witness: a document passed with its uuid is stored, and a document
\* for which the uuid was generated was stored after it, each under the last
\* 8 digits of its uuid.
DerivedIdWitness ==
    /\ returned.method = "create"
    /\ returned.raised = "none"
    /\ DOMAIN returned.arg = {"title", "content"}
    /\ returned.entity["uuid"] = UuidA2
    /\ DOMAIN document_table = {UuidA1, UuidA2}
    /\ document_table[UuidA1].id = Repeat("1", 8)
    /\ document_table[UuidA2].id = Repeat("2", 8)

\* C15 as stated: every document constructed has the id derived from its
\* uuid.
DerivedIdAlways ==
    [][Constructed(returned') =>
          LET e == returned'.entity
          IN  /\ "uuid" \in DOMAIN e /\ "id" \in DOMAIN e
              /\ Len(e["id"]) = 8
              /\ e["id"] = SubSeq(e["uuid"], 25, 32)]_vars

\* The tables of the repository.
tables == <<document_table, summaries, document_versions>>

\* C16: no two rows of documents share an id; and a document constructed
\* with the id of a stored row is not written: the call raises and the tables
\* are as they were.
UniqueDisplayId ==
    /\ [](\A u, w \in DOMAIN document_table :
             document_table[u].id = document_table[w].id => u = w)
    /\ [][(/\ Constructed(returned')
           /\ \E u \in DOMAIN document_table :
                 document_table[u].id = returned'.entity["id"]) =>
             /\ returned'.raised = "RuntimeError"
             /\ UNCHANGED tables]_vars

\* C16 witness: the document of UuidA1 is stored, and the create of a
\* document with UuidB1, which has the same last 8 digits, has raised.
UniqueDisplayIdWitness ==
    /\ returned.method = "create"
    /\ returned.raised = "RuntimeError"
    /\ returned.entity["uuid"] = UuidB1
    /\ returned.entity["id"] = Repeat("1", 8)
    /\ DOMAIN document_table = {UuidA1}
    /\ document_table[UuidA1].id = Repeat("1", 8)

\* The stored document e is asked for by the value a: by its uuid, by the
\* string of its uuid, or by its id.
AskedByUuid(a, e) == a = PyUUID(e.uuid) \/ a = PyStr(Str(e.uuid))
AskedById(a, e) == a = PyStr(e.id)
\* The value a is neither a UUID nor a string, or it is a string that is
\* neither 8 characters long nor the string of a UUID.
NoIdentifier(a) ==
    \/ a.type \notin {"UUID", "str"}
    \/ a.type = "str" /\ Len(a.v) # 8 /\ \A u \in Uuids : a.v # Str(u)

\* C17: find_by_id returns the stored document e for e.uuid and for
\* str(e.uuid), and for e.id when e.id has 8 characters; for a value that is
\* no identifier it returns None, raises nothing and sends no query.
FindByIdResolves ==
    [][returned'.method = "find_by_id" =>
          /\ returned'.raised = "none"
          /\ \A u \in DOMAIN document_table :
                LET e == document_table[u]
                IN  \/ AskedByUuid(returned'.arg, e)
                    \/ AskedById(returned'.arg, e) /\ Len(e.id) = 8
                    => returned'.value = {e}
          /\ NoIdentifier(returned'.arg) =>
                returned'.value = None /\ ~returned'.queried]_vars

\* C17 witness: the document of UuidA2 is stored under the id 22222222 and
\* find_by_id of that string has returned it.
FindByIdResolvesWitness ==
    /\ returned.method = "find_by_id"
    /\ returned.arg = PyStr(Repeat("2", 8))
    /\ UuidA2 \in DOMAIN document_table
    /\ document_table[UuidA2].id = Repeat("2", 8)
    /\ returned.value = {document_table[UuidA2]}

\* C17 as stated: find_by_id(e.id) returns e for every stored e.
FindByIdAlways ==
    [][returned'.method = "find_by_id" =>
          \A u \in DOMAIN document_table :
              LET e == document_table[u]
              IN  AskedByUuid(returned'.arg, e) \/ AskedById(returned'.arg, e)
                  => returned'.value = {e}]_vars

\* The last call ran an operation in transaction.
Transacted(r) ==
    r.method \in {"transaction", "create_with_summary", "update_with_version"}
\* Every document the operation added is stored.
AddedStored(operation, docs) ==
    \A i \in 1..Len(operation) :
        operation[i].do = "add" => operation[i].entity["uuid"] \in DOMAIN docs

\* C18: when the operation run by transaction raises an exception derived
\* from Exception, transaction raises RuntimeError; whenever the operation
\* or the commit raises, transaction raises and the tables are as they were;
\* and when the operation returns and the commit succeeds, every document it
\* added is stored and its result is returned.
TransactionAtomic ==
    [][Transacted(returned') =>
          /\ returned'.inner \in Exceptions => returned'.raised = "RuntimeError"
          /\ returned'.inner # "none" => returned'.raised # "none"
          /\ returned'.inner = "none" => returned'.raised \in {"none", "RuntimeError"}
          /\ returned'.raised # "none" => UNCHANGED tables
          /\ (returned'.method = "transaction" /\ returned'.raised = "none") =>
                /\ returned'.value = {"done"}
                /\ AddedStored(returned'.arg, document_table')]_vars

\* C18 witness: the operation added a document, flushed it and raised
\* ValueError; transaction raised RuntimeError and the only row stored is the
\* one that was there before.
TransactionAtomicWitness ==
    /\ returned.method = "transaction"
    /\ returned.arg = <<Add(DictPut(Fields, "uuid", UuidA1)), Flush, Raise("ValueError")>>
    /\ returned.inner = "ValueError"
    /\ returned.raised = "RuntimeError"
    /\ DOMAIN document_table = {UuidA2}

\* C18 as stated: an operation that raises gives RuntimeError and no row, and
\* an operation that returns is committed and its result returned.
TransactionAlways ==
    [][returned'.method = "transaction" =>
          /\ returned'.inner # "none" =>
                returned'.raised = "RuntimeError" /\ UNCHANGED tables
          /\ returned'.inner = "none" =>
                /\ returned'.raised = "none"
                /\ returned'.value = {"done"}
                /\ AddedStored(returned'.arg, document_table')]_vars

\* C19 as stated: update_with_version of a stored document at version v
\* raises nothing, leaves it at version v + 1 with has_versions set and the
\* new title, and adds exactly one document_versions row, numbered v + 1,
\* with the title and content the document had; for an unknown uuid it
\* raises and no row is inserted.
UpdateWithVersionRecords ==
    [][returned'.method = "update_with_version" =>
          LET uuid == returned'.arg
          IN  IF uuid \in DOMAIN document_table
              THEN LET current == document_table[uuid]
                   IN  /\ returned'.raised = "none"
                       /\ uuid \in DOMAIN document_table'
                       /\ document_table'[uuid].version = current.version + 1
                       /\ document_table'[uuid].has_versions
                       /\ document_versions' \ document_versions =
                             {[document_uuid |-> uuid,
                               version |-> current.version + 1,
                               content |-> current.content,
                               title |-> current.title]}
              ELSE /\ returned'.raised # "none"
                   /\ UNCHANGED tables]_vars

\* What the code does instead: update_with_version raises RuntimeError for
\* every uuid, stored or not, and changes no table.
UpdateWithVersionRaises ==
    [][returned'.method = "update_with_version" =>
          returned'.raised = "RuntimeError" /\ UNCHANGED tables]_vars

\* The summaries stored for the document uuid.
SummariesOf(rows, uuid) == {s \in rows : s.document_uuid = uuid}

\* C20: a create_with_summary that returns has stored a new document with
\* has_summary set and a summary that points to it; one that raises, in
\* particular because the summary could not be built, leaves the tables as
\* they were, with no row for the document; and every stored document with
\* has_summary set has a summary.
SummaryUnit ==
    /\ [](\A u \in DOMAIN document_table :
             document_table[u].has_summary => SummariesOf(summaries, u) # {})
    /\ [][returned'.method = "create_with_summary" =>
             /\ returned'.raised = "none" =>
                   \E u \in DOMAIN document_table' \ DOMAIN document_table :
                       /\ returned'.value = {document_table'[u]}
                       /\ document_table'[u].has_summary
                       /\ DOMAIN document_table' = DOMAIN document_table \cup {u}
                       /\ SummariesOf(summaries', u) # {}
                       /\ SummariesOf(summaries, u) = {}
             /\ returned'.raised # "none" => UNCHANGED tables
             /\ returned'.inner = "TypeError" =>
                   /\ returned'.raised = "RuntimeError"
                   /\ returned'.uuid \notin DOMAIN document_table']_vars

\* C20 witness: the document of UuidA2 was created with its summary, and a
\* create_with_summary of the document of UuidA1 has failed on its summary:
\* no row of UuidA1 is stored.
SummaryUnitWitness ==
    /\ returned.method = "create_with_summary"
    /\ returned.inner = "TypeError"
    /\ returned.raised = "RuntimeError"
    /\ returned.uuid = UuidA1
    /\ DOMAIN document_table = {UuidA2}
    /\ document_table[UuidA2].has_summary
    /\ SummariesOf(summaries, UuidA2) # {}

-----------------------------------------------------------------------------
(* Properties of the EntityOperation methods, continued.                    *)

\* C28 as stated: a call of mark_completed or mark_failed on an
\* EntityOperation whose status is completed or failed keeps the status, and
\* no call leaves an operation completed with an error in operation_data
\* unless it was so before.
TerminalAbsorbing ==
    [][call'.method \in {"mark_completed", "mark_failed"} =>
          /\ op.status \in Terminal => op'.status = op.status
          /\ (/\ op'.status = "completed"
              /\ ~op'.operation_data.null
              /\ "error" \in DOMAIN op'.operation_data.dict) =>
                 /\ op.status = "completed"
                 /\ ~op.operation_data.null
                 /\ "error" \in DOMAIN op.operation_data.dict]_vars

-----------------------------------------------------------------------------
(* EntityOperation objects in a session.  operation_data is a plain JSON    *)
(* column: the session writes it at commit only when the attribute was     *)
(* assigned, and a dict changed in place is not an assignment.              *)

\* The operations that are stored to begin with: pending, with any
\* operation_data.
StoredOperations ==
    {o \in EntityOperations :
        /\ o.status = DefaultStatus
        /\ o.operation_type = "merged"
        /\ o.entity_ids = {}
        /\ o.details = Null}
\* The attributes that mark_failed and set_rollback_data assign, besides
\* status: operation_data when it was falsy ("self.operation_data = {}"),
\* nothing when the key is put into the dict that is there.
AssignedData(o) == IF Falsy(o.operation_data) THEN {"operation_data"} ELSE {}
\* commit: the assigned attributes are written to the row.
Flushed(row, o, assigned) ==
    [f \in DOMAIN row |-> IF f \in assigned THEN o[f] ELSE row[f]]

StoreInsert(o) ==
    /\ persisted' = o
    /\ op' = o
    /\ dirty' = {}
    /\ call' = [method |-> "add", arg |-> "none"]
    /\ UNCHANGED <<dbvars, pc, req, response, repovars, schemavars, cachevars>>

StoreMarkCompleted ==
    /\ op' = mark_completed(op)
    /\ dirty' = dirty \cup {"status"}
    /\ call' = [method |-> "mark_completed", arg |-> "none"]
    /\ UNCHANGED <<dbvars, pc, req, response, repovars, schemavars, cachevars, persisted>>

StoreMarkFailed(error_message) ==
    /\ op' = mark_failed(op, error_message)
    /\ dirty' = dirty \cup {"status"} \cup AssignedData(op)
    /\ call' = [method |-> "mark_failed", arg |-> error_message]
    /\ UNCHANGED <<dbvars, pc, req, response, repovars, schemavars, cachevars, persisted>>

StoreSetRollbackData(data) ==
    /\ op' = set_rollback_data(op, data)
    /\ dirty' = dirty \cup AssignedData(op)
    /\ call' = [method |-> "set_rollback_data", arg |-> data]
    /\ UNCHANGED <<dbvars, pc, req, response, repovars, schemavars, cachevars, persisted>>

\* session.commit(), after which the object is loaded again from the row.
StoreCommit ==
    /\ call.method \in {"mark_completed", "mark_failed", "set_rollback_data"}
    /\ persisted' = Flushed(persisted, op, dirty)
    /\ op' = persisted'
    /\ dirty' = {}
    /\ call' = [method |-> "commit", arg |-> call.arg, after |-> call.method]
    /\ UNCHANGED <<dbvars, pc, req, response, repovars, schemavars, cachevars>>

StoreNext ==
    \/ \E o \in StoredOperations : StoreInsert(o)
    \/ StoreMarkCompleted
    \/ \E error_message \in ErrorMessages : StoreMarkFailed(error_message)
    \/ \E data \in RollbackData : StoreSetRollbackData(data)
    \/ StoreCommit

StoreSpec == Init /\ [][StoreNext]_vars

\* C29 as stated: when mark_failed(msg) or set_rollback_data(data) is
\* followed by a commit, the row that is loaded again holds msg under
\* 'error', or data under 'rollback', in operation_data.
StoredAsWritten ==
    [][call'.method = "commit" =>
          /\ call'.after = "mark_failed" =>
                /\ ~op'.operation_data.null
                /\ "error" \in DOMAIN op'.operation_data.dict
                /\ op'.operation_data.dict["error"] = call'.arg
          /\ call'.after = "set_rollback_data" =>
                /\ ~op'.operation_data.null
                /\ "rollback" \in DOMAIN op'.operation_data.dict
                /\ op'.operation_data.dict["rollback"] = call'.arg]_vars

\* What holds instead: the key is stored when operation_data was falsy
\* before the call, so that the method assigned a new dict.
StoredWhenAssigned ==
    [][(/\ call'.method = "commit"
        /\ call'.after = "mark_failed"
        /\ "operation_data" \in dirty) =>
           /\ ~op'.operation_data.null
           /\ "error" \in DOMAIN op'.operation_data.dict
           /\ op'.operation_data.dict["error"] = call'.arg]_vars

-----------------------------------------------------------------------------
(* LLM usage records and users.                                             *)

\* A uuid column that is NULL.
NullUuid == "null"
\* documents.owner_uuid and collections.owner_uuid: u1 owns every document
\* and the collection, u2 owns nothing.
owner_uuid(d) == "u1"
CollectionOwner == "u1"
\* llm_usage_valid_operation_type
OperationTypes ==
    {"summary", "graph_extraction", "text_cleaning", "email_analysis", "other"}

\* The CHECK constraints of llm_usage with tokens that must be positive.
UsageChecksPositive(r) ==
    /\ r.input_tokens > 0
    /\ r.output_tokens > 0
    /\ r.total_tokens > 0
    /\ r.operation_type \in OperationTypes
\* The CHECK constraints of llm_usage.
UsageChecks(r) ==
    /\ r.input_tokens >= 0
    /\ r.output_tokens >= 0
    /\ r.total_tokens >= 0
    /\ r.operation_type \in OperationTypes
\* The foreign keys of llm_usage: the document is there, the user is there or
\* NULL.
UsageReferences(r) ==
    /\ r.document_uuid \in documents
    /\ r.user_uuid = NullUuid \/ r.user_uuid \in users_table

\* llm_usage.user_uuid with ON DELETE CASCADE in place of SET NULL.
UsageWithoutUser(rows, u) == {r \in rows : r.user_uuid # u}
\* llm_usage.user_uuid is ON DELETE SET NULL.
UsageAfterUserDelete(rows, u) ==
    {IF r.user_uuid = u THEN [r EXCEPT !.user_uuid = NullUuid] ELSE r : r \in rows}

UsageValues(d, u, t, i, o, n) ==
    [document_uuid |-> d, user_uuid |-> u, operation_type |-> t,
     input_tokens |-> i, output_tokens |-> o, total_tokens |-> n]
\* The rows that are written: for two documents, without a user, with zero
\* tokens for every operation_type and one that is none, and with a negative
\* count in each place.
UsageInputs ==
    {UsageValues(d, "u2", "summary", 100, 50, 150) : d \in {"A", "B"}}
        \cup {UsageValues("A", NullUuid, "summary", 100, 50, 150)}
        \cup {UsageValues("A", "u2", t, 0, 0, 0) : t \in OperationTypes \cup {"chat"}}
        \cup {UsageValues("A", "u2", "other", -1, 50, 49),
              UsageValues("A", "u2", "other", 100, -1, 99),
              UsageValues("A", "u2", "other", 100, 50, -1)}
UsageRow(values, uuid) ==
    [f \in DOMAIN values \cup {"uuid"} |-> IF f = "uuid" THEN uuid ELSE values[f]]

\* session.add(LLMUsage(**values)) and flush.
CreateUsage(values) ==
    /\ Cardinality(llm_usage) < MaxUsage
    /\ LET uuid == Min((1..MaxUsage) \ {r.uuid : r \in llm_usage})
           row == UsageRow(values, uuid)
           accepted == UsageChecks(row) /\ UsageReferences(row)
       IN  /\ llm_usage' = IF accepted THEN llm_usage \cup {row} ELSE llm_usage
           /\ returned' = [method |-> "add_usage", arg |-> values, uuid |-> uuid,
                           raised |-> IF accepted THEN "none" ELSE "IntegrityError"]
    /\ UNCHANGED <<dbvars, pc, req, response, call, op, document_table, summaries,
                   document_versions, users_table, collection_relationship_sources,
                   storevars, cachevars>>

\* DELETE FROM users: the documents and the collection the user owns go
\* with their rows, and llm_usage rows of other documents lose the user.
DeleteUser(u) ==
    /\ u \in users_table
    /\ InTransaction = {}
    /\ users_table' = users_table \ {u}
    /\ LET owned == {d \in documents : owner_uuid(d) = u}
           ges == UNION {GraphEntitiesOf(d) : d \in owned}
           gone == collection.exists /\ CollectionOwner = u
       IN  /\ documents' = documents \ owned
           /\ graph_entities' = graph_entities \ ges
           /\ llm_usage' = UsageAfterUserDelete(UsageAfterDelete(llm_usage, owned), u)
           /\ file_collection_association' =
                  IF gone THEN {} ELSE file_collection_association \ owned
           /\ collection' =
                  IF gone THEN [collection EXCEPT !.exists = FALSE] ELSE collection
           /\ collection_entities' = IF gone THEN <<>> ELSE collection_entities
           /\ collection_entity_sources' =
                  IF gone THEN {}
                  ELSE SourcesAfterDelete(collection_entity_sources, ges, {})
           /\ collection_relationships' = IF gone THEN {} ELSE collection_relationships
           /\ collection_relationship_sources' =
                  IF gone THEN {}
                  ELSE {r \in collection_relationship_sources :
                           r[2][1] \notin ges /\ r[2][2] \notin ges}
           /\ entity_links' =
                  IF gone THEN <<>> ELSE LinksAfterDelete(entity_links, ges, {})
           /\ entity_operations' = IF gone THEN <<>> ELSE entity_operations
    /\ UNCHANGED <<pc, req, response, call, op, repovars, storevars, cachevars>>

UsageNext ==
    \/ \E values \in UsageInputs : CreateUsage(values)
    \/ \E d \in DeletableDocuments : DeleteDocument(d)
    \/ \E u \in UserIds : DeleteUser(u)

UsageSpec == Init /\ [][UsageNext]_vars


UserDeleteSetsNull ==
    [][\A u \in users_table \ users_table' :
          (\A d \in documents : owner_uuid(d) # u) =>
              /\ {r.uuid : r \in llm_usage'} = {r.uuid : r \in llm_usage}
              /\ Cardinality(llm_usage') = Cardinality(llm_usage)
              /\ \A r \in llm_usage : \E s \in llm_usage' :
                     /\ s.uuid = r.uuid
                     /\ s.user_uuid = IF r.user_uuid = u THEN NullUuid ELSE r.user_uuid
                     /\ \A f \in DOMAIN r \ {"user_uuid"} : s[f] = r[f]]_vars
\* User u2 is deleted, the documents are all there, and the MaxUsage usage
\* rows written for u2 are there without a user.
UserDeleteSetsNullWitness ==
    /\ "u2" \notin users_table
    /\ documents = DocumentIds
    /\ Cardinality(llm_usage) = MaxUsage
    /\ returned.method = "add_usage"
    /\ returned.raised = "none"
    /\ returned.arg.user_uuid = "u2"
    /\ \A r \in llm_usage : r.user_uuid = NullUuid /\ r.input_tokens = 100

\* C25: a write of an LLMUsage row for a stored document and a stored or
\* absent user is accepted exactly when the three token counts are each >= 0
\* and operation_type is one of summary, graph_extraction, text_cleaning,
\* email_analysis, other; an accepted write adds the row, any other is
\* rejected with an integrity error and adds no row.
UsageWriteChecked ==
    [][(/\ returned' # returned
        /\ returned'.method = "add_usage"
        /\ returned'.arg.document_uuid \in documents
        /\ returned'.arg.user_uuid \in users_table \cup {NullUuid}) =>
          LET w == returned'.arg
              valid == /\ w.input_tokens >= 0
                       /\ w.output_tokens >= 0
                       /\ w.total_tokens >= 0
                       /\ w.operation_type \in
                              {"summary", "graph_extraction", "text_cleaning",
                               "email_analysis", "other"}
          IN  /\ valid <=> returned'.raised = "none"
              /\ valid => /\ Cardinality(llm_usage') = Cardinality(llm_usage) + 1
                          /\ \E r \in llm_usage' \ llm_usage :
                                 \A f \in DOMAIN w : r[f] = w[f]
              /\ ~valid => /\ returned'.raised = "IntegrityError"
                           /\ llm_usage' = llm_usage]_vars
\* A row with zero tokens is stored and the write of a row with a negative
\* count was rejected after it.
UsageWriteCheckedWitness ==
    /\ returned.method = "add_usage"
    /\ returned.raised = "IntegrityError"
    /\ returned.arg.output_tokens < 0
    /\ "A" \in documents
    /\ "u2" \in users_table
    /\ \E r \in llm_usage : r.total_tokens = 0 /\ r.operation_type = "email_analysis"

-----------------------------------------------------------------------------
(* Rows written to and deleted from the collection tables directly.         *)

\* The junction rows, the collection relationship and the confidence scores
\* that are written.
SourceInputs == {<<1, 1>>, <<2, 2>>, <<2, 3>>}
RelationshipInputs ==
    {[source_entity_id |-> 1, target_entity_id |-> 2, source |-> <<1, 3>>]}
ScoreInputs == {-1, 0, 100, 101}

\* The foreign keys of collection_entity_sources.
SourceReferences(ce, s) == ce \in DOMAIN collection_entities /\ s \in graph_entities
\* The foreign keys of collection_relationship_sources.
RelationshipSourceReferences(x, g) ==
    x \in collection_relationships /\ g \in GraphRelationships
\* The foreign keys of entity_links: both entity columns are nullable (0).
LinkReferences(e, ce) ==
    /\ collection.exists
    /\ e = 0 \/ e \in graph_entities
    /\ ce = 0 \/ ce \in DOMAIN collection_entities

\* An entity_links row with its confidence_score.
ScoredEntityLink(e, ce, confidence_score) ==
    [f \in DOMAIN NewEntityLink(e, ce) \cup {"confidence_score"} |->
        IF f = "confidence_score" THEN confidence_score ELSE NewEntityLink(e, ce)[f]]

InsertCollectionEntity(ce) ==
    /\ collection.exists
    /\ ce \notin DOMAIN collection_entities
    /\ collection_entities' =
           [c \in DOMAIN collection_entities \cup {ce} |->
               IF c = ce THEN NewCollectionEntity ELSE collection_entities[c]]
    /\ UNCHANGED <<documents, file_collection_association, graph_entities, collection,
                   collection_entity_sources, collection_relationships, entity_links,
                   entity_operations, pc, req, response, call, op, repovars,
                   schemavars, storevars, cachevars>>

\* DELETE FROM collection_entities: its junction rows and links go with it.
DeleteCollectionEntity(ce) ==
    /\ ce \in DOMAIN collection_entities
    /\ collection_entities' =
           [c \in DOMAIN collection_entities \ {ce} |-> collection_entities[c]]
    /\ collection_entity_sources' =
           SourcesAfterDelete(collection_entity_sources, {}, {ce})
    /\ entity_links' = LinksAfterDelete(entity_links, {}, {ce})
    /\ UNCHANGED <<documents, file_collection_association, graph_entities, collection,
                   collection_relationships, entity_operations, pc, req, response,
                   call, op, repovars, schemavars, storevars, cachevars>>

InsertCollectionEntitySource(ce, s) ==
    /\ <<ce, s>> \notin collection_entity_sources
    /\ collection_entity_sources' =
           IF SourceReferences(ce, s)
           THEN collection_entity_sources \cup {<<ce, s>>}
           ELSE collection_entity_sources
    /\ returned' = [method |-> "insert_source", arg |-> <<ce, s>>,
                    raised |-> IF SourceReferences(ce, s) THEN "none"
                               ELSE "IntegrityError"]
    /\ UNCHANGED <<documents, file_collection_association, graph_entities, collection,
                   collection_entities, collection_relationships, entity_links,
                   entity_operations, pc, req, response, call, op, document_table,
                   summaries, document_versions, schemavars, storevars, cachevars>>

InsertCollectionRelationship(x) ==
    /\ collection.exists
    /\ x \notin collection_relationships
    /\ collection_relationships' = collection_relationships \cup {x}
    /\ UNCHANGED <<documents, file_collection_association, graph_entities, collection,
                   collection_entities, collection_entity_sources, entity_links,
                   entity_operations, pc, req, response, call, op, repovars,
                   schemavars, storevars, cachevars>>

\* DELETE FROM collection_relationships: its junction rows go with it.
DeleteCollectionRelationship(x) ==
    /\ x \in collection_relationships
    /\ collection_relationships' = collection_relationships \ {x}
    /\ collection_relationship_sources' =
           {r \in collection_relationship_sources : r[1] # x}
    /\ UNCHANGED <<documents, file_collection_association, graph_entities, collection,
                   collection_entities, collection_entity_sources, entity_links,
                   entity_operations, pc, req, response, call, op, repovars,
                   users_table, llm_usage, storevars, cachevars>>

InsertCollectionRelationshipSource(x, g) ==
    /\ <<x, g>> \notin collection_relationship_sources
    /\ collection_relationship_sources' =
           IF RelationshipSourceReferences(x, g)
           THEN collection_relationship_sources \cup {<<x, g>>}
           ELSE collection_relationship_sources
    /\ returned' = [method |-> "insert_relationship_source", arg |-> <<x, g>>,
                    raised |-> IF RelationshipSourceReferences(x, g) THEN "none"
                               ELSE "IntegrityError"]
    /\ UNCHANGED <<dbvars, pc, req, response, call, op, document_table, summaries,
                   document_versions, users_table, llm_usage, storevars, cachevars>>

\* session.add(EntityLink(..., confidence_score=confidence_score)) and flush:
\* the table has the foreign keys and no constraint on the score.
InsertEntityLink(e, ce, confidence_score) ==
    /\ LinkReferences(e, ce)
    /\ LET id == Min((1..(MaxLinks + 1)) \ DOMAIN entity_links)
       IN  /\ id <= MaxLinks
           /\ entity_links' =
                  [l \in DOMAIN entity_links \cup {id} |->
                      IF l = id THEN ScoredEntityLink(e, ce, confidence_score)
                      ELSE entity_links[l]]
    /\ UNCHANGED <<documents, file_collection_association, graph_entities, collection,
                   collection_entities, collection_entity_sources,
                   collection_relationships, entity_operations, pc, req, response,
                   call, op, repovars, schemavars, storevars, cachevars>>

SchemaNext ==
    \/ \E ce \in {1, 2} : InsertCollectionEntity(ce)
    \/ \E ce \in {1, 2} : DeleteCollectionEntity(ce)
    \/ \E r \in SourceInputs : InsertCollectionEntitySource(r[1], r[2])
    \/ \E x \in RelationshipInputs : InsertCollectionRelationship(x)
    \/ \E x \in RelationshipInputs : DeleteCollectionRelationship(x)
    \/ \E x \in RelationshipInputs, g \in GraphRelationshipIds :
           InsertCollectionRelationshipSource(x, g)
    \/ \E confidence_score \in ScoreInputs : InsertEntityLink(2, 1, confidence_score)
    \/ \E d \in DeletableDocuments : DeleteDocument(d)
    \/ \E e \in DeletableEntities : DeleteGraphEntity(e)
    \/ DeleteCollection

SchemaSpec == Init /\ [][SchemaNext]_vars

\* C26: the confidence_score of every stored EntityLink is an integer between
\* 0 and 100.
ConfidenceInRange ==
    \A l \in DOMAIN entity_links :
        "confidence_score" \in DOMAIN entity_links[l] =>
            entity_links[l].confidence_score \in 0..100

\* C30: every collection_entity_sources row references a stored
\* CollectionEntity and a stored GraphEntity, and every
\* collection_relationship_sources row a stored CollectionRelationship and a
\* stored GraphRelationship.
JunctionsResolve ==
    /\ \A r \in collection_entity_sources :
           r[1] \in DOMAIN collection_entities /\ r[2] \in graph_entities
    /\ \A r \in collection_relationship_sources :
           r[1] \in collection_relationships /\ r[2] \in GraphRelationships
\* The junction row of collection entity 2 and graph entity 2 was written, the
\* graph entity was deleted and the row is gone with it, while the rows of
\* the entities and relationships that are stored are there.
JunctionsResolveWitness ==
    /\ returned.method = "insert_source"
    /\ returned.raised = "none"
    /\ returned.arg = <<2, 2>>
    /\ 2 \in DOMAIN collection_entities
    /\ 2 \notin graph_entities
    /\ "B" \in documents
    /\ collection_entity_sources = {<<1, 1>>, <<2, 3>>}
    /\ collection_relationship_sources # {}

-----------------------------------------------------------------------------
(* The query cache of DocumentRepository.                                   *)

\* cache_query(ttl=timedelta(minutes=15)) of find_by_organization,
\* find_by_owner and find_by_status.
CacheTtl == 15
CachedFinders == {"find_by_organization", "find_by_owner", "find_by_status"}
TitleInputs == {[title |-> Title1], [title |-> Title2]}

\* query.all(): the documents of the organization, of the owner or with the
\* status asked for, as the objects the session loaded.
find_all(docs) == {docs[u] : u \in DOMAIN docs}

\* CacheManager.get: the value of an entry that has not expired, else None.
cache_get(entries, key, time) ==
    IF key \in DOMAIN entries /\ time < entries[key].expires
    THEN {entries[key].value}
    ELSE None
\* CacheManager.set: the entry is (value, expiry).
cache_set(entries, key, value, time) ==
    (key :> [value |-> value, expires |-> time + CacheTtl]) @@ entries
\* cache_query: the cached value when there is one, else the result of the
\* query, which is cached.
cache_query(entries, key, queried, time) ==
    IF cache_get(entries, key, time) # None
    THEN [value |-> CHOOSE v \in cache_get(entries, key, time) : TRUE,
          entries |-> entries, hit |-> TRUE]
    ELSE [value |-> queried, entries |-> cache_set(entries, key, queried, time),
          hit |-> FALSE]

FindByUuid(uuid) ==
    /\ returned' = [method |-> "find_by_uuid", arg |-> uuid, raised |-> "none",
                    value |-> {r \in find_by_uuid(document_table, uuid).value : TRUE},
                    hit |-> FALSE]
    /\ UNCHANGED <<enginevars, document_table, summaries, document_versions>>

FindCached(method) ==
    LET out == cache_query(cache, method, find_all(document_table), now)
    IN  /\ cache' = out.entries
        /\ returned' = [method |-> method, arg |-> method, raised |-> "none",
                        value |-> out.value, hit |-> out.hit]
        /\ UNCHANGED <<dbvars, pc, req, response, call, op, document_table, summaries,
                       document_versions, schemavars, storevars, now, threads>>

Tick ==
    /\ now + Step <= MaxTime
    /\ now' = now + Step
    /\ UNCHANGED <<dbvars, pc, req, response, call, op, repovars, schemavars,
                   storevars, cache, threads>>

CacheNext ==
    \/ Create(DictPut(Fields, "uuid", UuidA1), UuidA1)
    \/ \E entity \in TitleInputs : Update(UuidA1, entity)
    \/ FindByUuid(UuidA1)
    \/ \E method \in CachedFinders : FindCached(method)
    \/ Tick

CacheSpec == Init /\ [][CacheNext]_vars

\* C21: whatever a read returns (find_by_uuid, and find_by_organization,
\* find_by_owner and find_by_status within their TTL) carries the fields the
\* last update wrote: every document returned is as it is stored.
ReadsSeeUpdate ==
    returned.method \in CachedFinders \cup {"find_by_uuid"} =>
        \A row \in returned.value :
            row.uuid \in DOMAIN document_table => row = document_table[row.uuid]
\* find_by_uuid, which is not cached, returns the document as it is stored.
FindByUuidSeesUpdate ==
    returned.method = "find_by_uuid" =>
        \A row \in returned.value :
            row.uuid \in DOMAIN document_table /\ row = document_table[row.uuid]
\* A finder whose entry has expired returns the documents as they are stored.
ExpiredReadsSeeUpdate ==
    (returned.method \in CachedFinders /\ ~returned.hit) =>
        returned.value = find_all(document_table)

-----------------------------------------------------------------------------
(* Calls of update and find_by_uuid that overlap.  Each call gets its own   *)
(* session from _get_session; an update reads the row (UpdateBegin) and     *)
(* later commits the attributes it set (UpdateCommit).                      *)

Title3 == "t3"
ThreadInputs == {[title |-> Title2], [title |-> Title3]}

\* A commit that compares the row with the one the session loaded, as with a
\* version counter on the table, and fails when another session has written.
update_commit_compared(docs, uuid, read, entity) ==
    IF uuid \notin DOMAIN docs \/ docs[uuid].title # read
    THEN [raised |-> "RuntimeError", docs |-> docs, value |-> None]
    ELSE [raised |-> "none",
          docs |-> [docs EXCEPT ![uuid].title = entity["title"]],
          value |-> {[docs[uuid] EXCEPT !.title = entity["title"]]}]
\* session.commit() of update: UPDATE documents SET title = ... WHERE uuid =
\* ...; a row that is no longer there makes the flush raise, which update
\* raises again as RuntimeError.
update_commit(docs, uuid, read, entity) ==
    IF uuid \notin DOMAIN docs
    THEN [raised |-> "RuntimeError", docs |-> docs, value |-> None]
    ELSE [raised |-> "none",
          docs |-> [docs EXCEPT ![uuid].title = entity["title"]],
          value |-> {[docs[uuid] EXCEPT !.title = entity["title"]]}]

\* update up to the commit: the row is queried and the attributes are set on
\* the loaded object; None is returned when there is no row.
UpdateBegin(t, uuid, entity) ==
    /\ threads[t].pc = "idle"
    /\ IF uuid \in DOMAIN document_table
       THEN /\ threads' = [threads EXCEPT ![t].pc = "commit",
                                          ![t].title = entity["title"],
                                          ![t].read = document_table[uuid].title]
            /\ UNCHANGED returned
       ELSE /\ returned' = [method |-> "update", arg |-> uuid, raised |-> "none",
                            value |-> None]
            /\ UNCHANGED threads
    /\ UNCHANGED <<dbvars, pc, req, response, call, op, document_table, summaries,
                   document_versions, schemavars, storevars, cache, now>>

UpdateCommit(t, uuid) ==
    /\ threads[t].pc = "commit"
    /\ LET out == update_commit(document_table, uuid, threads[t].read,
                                [title |-> threads[t].title])
       IN  /\ document_table' = out.docs
           /\ threads' = [threads EXCEPT
                             ![t].pc = "idle", ![t].title = "none",
                             ![t].read = "none",
                             ![t].wrote = IF out.raised = "none"
                                          THEN @ \cup {threads[t].title} ELSE @,
                             ![t].raised = out.raised]
           /\ returned' = [method |-> "update", arg |-> uuid,
                           raised |-> out.raised, value |-> out.value]
    /\ UNCHANGED <<dbvars, pc, req, response, call, op, summaries,
                   document_versions, schemavars, storevars, cache, now>>

ThreadNext ==
    \/ Create(DictPut(Fields, "uuid", UuidA1), UuidA1)
    \/ \E t \in Threads, entity \in ThreadInputs : UpdateBegin(t, UuidA1, entity)
    \/ \E t \in Threads : UpdateCommit(t, UuidA1)
    \/ FindByUuid(UuidA1)

ThreadSpec == Init /\ [][ThreadNext]_vars

\* The titles the updates have written.
Written == UNION {threads[t].wrote : t \in Threads}

-----------------------------------------------------------------------------
(* Rows of document_versions: those update_with_version makes and those     *)
(* added as DocumentVersion objects.                                        *)

\* The version numbers written: 0 fails document_versions_valid_version.
VersionInputs == {0, 1, 2}

\* The __table_args__ of DocumentVersion: version > 0 and nothing else.
VersionChecks(row) == row.version > 0
\* document_versions.document_uuid references documents.uuid.
VersionReferences(docs, row) == row.document_uuid \in DOMAIN docs

\* session.add(DocumentVersion(document_uuid=..., version=..., ...)) with
\* every NOT NULL column given, and commit.
InsertDocumentVersion(document_uuid, version) ==
    /\ Cardinality(document_versions) < MaxVersions
    /\ document_uuid \in DOMAIN document_table
    /\ LET uuid == Min((1..MaxVersions) \ {r.uuid : r \in document_versions})
           row == [uuid |-> uuid, document_uuid |-> document_uuid,
                   version |-> version,
                   content |-> document_table[document_uuid].content,
                   title |-> document_table[document_uuid].title]
           accepted == VersionChecks(row) /\ VersionReferences(document_table, row)
       IN  /\ document_versions' =
                  IF accepted THEN document_versions \cup {row} ELSE document_versions
           /\ returned' = [method |-> "add_version", arg |-> row,
                           raised |-> IF accepted THEN "none" ELSE "IntegrityError",
                           value |-> None]
    /\ UNCHANGED <<enginevars, document_table, summaries>>

VersionNext ==
    \/ \E u \in {UuidA1, UuidB1} : Create(DictPut(Fields, "uuid", u), u)
    \/ \E u \in {UuidA1, UuidB1}, document \in UpdateInputs :
           UpdateWithVersion(u, document)
    \/ \E u \in {UuidA1, UuidB1}, version \in VersionInputs :
           InsertDocumentVersion(u, version)
    \/ \E u \in {UuidA1, UuidB1}, entity \in TitleInputs : Update(u, entity)
    \/ \E u \in {UuidA1, UuidB1} : Delete(u)

VersionSpec == Init /\ [][VersionNext]_vars

\* C27: no two rows of document_versions have the same document and the same
\* version.
VersionsUnique ==
    \A v, w \in document_versions :
        (v.document_uuid = w.document_uuid /\ v.version = w.version) => v = w
\* No call of update_with_version succeeds, so the version of a document
\* stays the one it was created with and update_with_version adds no row.
VersionNeverAdvances ==
    /\ \A u \in DOMAIN document_table : document_table[u].version = DefaultVersion
    /\ returned.method = "update_with_version" => returned.raised # "none"

====
